---------------------------- MODULE Spec2Model ----------------------------
(***************************************************************************)
(* A model of xv6sh, a Unix v6-like shell: the scanner (lexer.rs), the     *)
(* parser (parser.rs), the serializer (serializer.rs), the translator      *)
(* (translator.rs), the interpreter (interp.rs), the process group and the *)
(* background-process manager (process.rs, background.rs) and the driver   *)
(* (main.rs).                                                              *)
(*                                                                         *)
(* Text is a sequence of one-character strings: the word `cd` is           *)
(* <<"c", "d">>.  VecDeque values are sequences, front first.              *)
(***************************************************************************)
EXTENDS Naturals, Sequences, FiniteSets, TLC

(***************************************************************************)
(* Bounds of the model.                                                    *)
(***************************************************************************)
\* the number of input lines the driver reads in one session
MaxLines == 2

(***************************************************************************)
(* lexer.rs                                                                *)
(***************************************************************************)
\* struct Token { kind, value }
Token(kind, value) == [kind |-> kind, value |-> value]

\* Lexer::new: the scanner state
LexerNew(input) == [buff |-> <<>>, inside |-> FALSE, input |-> input, r |-> <<>>]

\* Lexer::peek: the next character, or "" for None (no character is "")
peek(lx) == IF lx.input = <<>> THEN "" ELSE Head(lx.input)

\* Lexer::advance
advance(lx) == [lx EXCEPT !.input = Tail(@)]

\* Lexer::enter_or_persist
enter_or_persist(lx, c) == [lx EXCEPT !.inside = TRUE, !.buff = Append(@, c)]

\* Lexer::leave pushing the buffer without looking at it
leave_unchecked(lx) ==
    [lx EXCEPT !.inside = FALSE,
               !.r = Append(@, Token("CommandOrArgument", lx.buff)),
               !.buff = <<>>]

\* Lexer::leave
leave(lx) ==
    IF lx.buff # <<>>
    THEN [lx EXCEPT !.inside = FALSE,
                    !.r = Append(@, Token("CommandOrArgument", lx.buff)),
                    !.buff = <<>>]
    ELSE [lx EXCEPT !.inside = FALSE]

\* Lexer::leave_and_push_back_string
leave_and_push_back_string(lx, kind, value) ==
    LET l == leave(lx) IN [l EXCEPT !.r = Append(@, Token(kind, value))]

\* Lexer::leave_and_push_back
leave_and_push_back(lx, kind) == leave_and_push_back_string(lx, kind, <<>>)

\* Lexer::process_current leaving the second `>` of a pair in the input
process_current_no_advance(lx, c) ==
    IF c = " " \/ c = "\t" THEN [lx |-> leave(lx), at_eol |-> FALSE]
    ELSE IF c = "|" THEN [lx |-> leave_and_push_back(lx, "Pipe"), at_eol |-> FALSE]
    ELSE IF c = "(" THEN [lx |-> leave_and_push_back(lx, "OpenBrace"), at_eol |-> FALSE]
    ELSE IF c = ")" THEN [lx |-> leave_and_push_back(lx, "CloseBrace"), at_eol |-> FALSE]
    ELSE IF c = ";" THEN [lx |-> leave_and_push_back(lx, "Semicolon"), at_eol |-> FALSE]
    ELSE IF c = "&" THEN [lx |-> leave_and_push_back(lx, "Ampersand"), at_eol |-> FALSE]
    ELSE IF c = "<" THEN [lx |-> leave_and_push_back(lx, "Minor"), at_eol |-> FALSE]
    ELSE IF c = ">" THEN
        IF peek(lx) # ""
        THEN IF peek(lx) = ">"
             THEN [lx |-> leave_and_push_back(lx, "MajorMajor"), at_eol |-> FALSE]
             ELSE [lx |-> leave_and_push_back(lx, "Major"), at_eol |-> FALSE]
        ELSE [lx |-> leave_and_push_back(lx, "Major"), at_eol |-> TRUE]
    ELSE [lx |-> enter_or_persist(lx, c), at_eol |-> FALSE]

\* Lexer::process_current: the new scanner state and the at_eol flag
process_current(lx, c) ==
    IF c = " " \/ c = "\t" THEN [lx |-> leave(lx), at_eol |-> FALSE]
    ELSE IF c = "|" THEN [lx |-> leave_and_push_back(lx, "Pipe"), at_eol |-> FALSE]
    ELSE IF c = "(" THEN [lx |-> leave_and_push_back(lx, "OpenBrace"), at_eol |-> FALSE]
    ELSE IF c = ")" THEN [lx |-> leave_and_push_back(lx, "CloseBrace"), at_eol |-> FALSE]
    ELSE IF c = ";" THEN [lx |-> leave_and_push_back(lx, "Semicolon"), at_eol |-> FALSE]
    ELSE IF c = "&" THEN [lx |-> leave_and_push_back(lx, "Ampersand"), at_eol |-> FALSE]
    ELSE IF c = "<" THEN [lx |-> leave_and_push_back(lx, "Minor"), at_eol |-> FALSE]
    ELSE IF c = ">" THEN
        IF peek(lx) # ""
        THEN IF peek(lx) = ">"
             THEN [lx |-> leave_and_push_back(advance(lx), "MajorMajor"), at_eol |-> FALSE]
             ELSE [lx |-> leave_and_push_back(lx, "Major"), at_eol |-> FALSE]
        ELSE [lx |-> leave_and_push_back(lx, "Major"), at_eol |-> TRUE]
    ELSE [lx |-> enter_or_persist(lx, c), at_eol |-> FALSE]

\* Lexer::run
RECURSIVE LexerRun(_)
LexerRun(lx) ==
    IF peek(lx) # ""
    THEN LET pc0 == process_current(advance(lx), peek(lx)) IN
         IF pc0.at_eol
         THEN leave_and_push_back(pc0.lx, "EndOfLine")
         ELSE LexerRun(pc0.lx)
    ELSE leave_and_push_back(lx, "EndOfLine")

\* lexer::scan
scan(cmdline) == LexerRun(LexerNew(cmdline)).r

(***************************************************************************)
(* parser.rs                                                               *)
(*                                                                         *)
(* The parser owns the token deque; here every parsing function takes the  *)
(* deque and returns Ok(value, remaining deque) or Err(reason).            *)
(***************************************************************************)
POk(val, rest) == [ok |-> TRUE, val |-> val, rest |-> rest]
PErr(reason) == [ok |-> FALSE, err |-> reason]

\* RedirectList::new
RedirectListNew == [input |-> <<>>, output |-> <<>>]

\* struct InputRedir / struct OutputRedir
InputRedir(filename) == [filename |-> filename]
OutputRedir(filename, overwrite) == [filename |-> filename, overwrite |-> overwrite]

\* Parser::read
read(tokens) ==
    IF tokens = <<>> THEN PErr("unexpected end of input")
    ELSE POk(Head(tokens), Tail(tokens))

\* Parser::unread
unread(tokens, token) == <<token>> \o tokens

\* The `?` of Rust: r if r is an Err, else what F makes of the Ok r
Try(r, F(_)) == IF r.ok THEN F(r) ELSE r

\* Parser::read_command_or_argument_token
read_command_or_argument_token(tokens) ==
    Try(read(tokens), LAMBDA t :
        IF t.val.kind = "CommandOrArgument" THEN t
        ELSE PErr("expected CommandOrArgument token"))

\* Parser::parse_redirs: the loop, redirs being the list collected so far
RECURSIVE parse_redirs_loop(_, _)
parse_redirs_loop(redirs, tokens) ==
    Try(read(tokens), LAMBDA t :
        IF t.val.kind = "Minor"
        THEN Try(read_command_or_argument_token(t.rest), LAMBDA v :
                 parse_redirs_loop(
                     [redirs EXCEPT !.input = <<InputRedir(v.val.value)>> \o @],
                     v.rest))
        ELSE IF t.val.kind = "Major"
        THEN Try(read_command_or_argument_token(t.rest), LAMBDA v :
                 parse_redirs_loop(
                     [redirs EXCEPT !.output = <<OutputRedir(v.val.value, TRUE)>> \o @],
                     v.rest))
        ELSE IF t.val.kind = "MajorMajor"
        THEN Try(read_command_or_argument_token(t.rest), LAMBDA v :
                 parse_redirs_loop(
                     [redirs EXCEPT !.output = <<OutputRedir(v.val.value, FALSE)>> \o @],
                     v.rest))
        ELSE POk(redirs, unread(t.rest, t.val)))

\* Parser::parse_redirs
parse_redirs(tokens) == parse_redirs_loop(RedirectListNew, tokens)

\* Parser::parse_simple_command: the loop collecting the arguments
RECURSIVE parse_arguments_loop(_, _)
parse_arguments_loop(arguments, tokens) ==
    Try(read(tokens), LAMBDA t :
        IF t.val.kind = "CommandOrArgument"
        THEN parse_arguments_loop(Append(arguments, t.val.value), t.rest)
        ELSE POk(arguments, unread(t.rest, t.val)))

\* Parser::parse_simple_command
parse_simple_command(tokens) ==
    Try(parse_arguments_loop(<<>>, tokens), LAMBDA a :
        Try(parse_redirs(a.rest), LAMBDA r :
            POk([type |-> "SimpleCommand", arguments |-> a.val, redirs |-> r.val],
                r.rest)))

RECURSIVE parse_complete_command_loop(_, _)
RECURSIVE parse_pipeline_loop(_, _)
RECURSIVE parse_command(_)
RECURSIVE parse_subshell(_)

\* Parser::parse_complete_command: the loop, pipelines being those pushed so far
parse_complete_command_loop(pipelines, tokens) ==
    Try(parse_pipeline_loop(<<>>, tokens), LAMBDA p :
        Try(read(p.rest), LAMBDA t :
            IF t.val.kind = "Semicolon"
            THEN parse_complete_command_loop(
                     Append(pipelines, [p.val EXCEPT !.sync = TRUE]), t.rest)
            ELSE IF t.val.kind = "Ampersand"
            THEN parse_complete_command_loop(
                     Append(pipelines, [p.val EXCEPT !.sync = FALSE]), t.rest)
            ELSE IF t.val.kind = "EndOfLine"
            THEN POk([pipelines |-> Append(pipelines, [p.val EXCEPT !.sync = TRUE])],
                     unread(t.rest, t.val))
            ELSE IF t.val.kind = "CloseBrace"
            THEN POk([pipelines |-> Append(pipelines, [p.val EXCEPT !.sync = TRUE])],
                     unread(t.rest, t.val))
            ELSE PErr("expected ;&) or EOL")))

\* Parser::parse_complete_command
parse_complete_command(tokens) == parse_complete_command_loop(<<>>, tokens)

\* Parser::parse_pipeline: the loop, commands being those pushed so far;
\* Pipeline::new sets sync to false
parse_pipeline_loop(commands, tokens) ==
    Try(parse_command(tokens), LAMBDA c :
        Try(read(c.rest), LAMBDA t :
            IF t.val.kind = "Pipe"
            THEN parse_pipeline_loop(Append(commands, c.val), t.rest)
            ELSE POk([commands |-> Append(commands, c.val), sync |-> FALSE],
                     unread(t.rest, t.val))))

\* Parser::parse_pipeline
parse_pipeline(tokens) == parse_pipeline_loop(<<>>, tokens)

\* Parser::parse_command
parse_command(tokens) ==
    Try(read(tokens), LAMBDA t :
        IF t.val.kind = "OpenBrace" THEN parse_subshell(t.rest)
        ELSE parse_simple_command(unread(t.rest, t.val)))

\* Parser::parse_subshell taking the end of the line for the `)`
parse_subshell_unclosed(tokens) ==
    Try(parse_complete_command_loop(<<>>, tokens), LAMBDA cc :
        Try(read(cc.rest), LAMBDA t :
            IF t.val.kind = "EndOfLine"
            THEN POk([type |-> "Subshell", complete_command |-> cc.val,
                      redirs |-> RedirectListNew], unread(t.rest, t.val))
            ELSE IF t.val.kind # "CloseBrace" THEN PErr("expected ')' token")
            ELSE Try(parse_redirs(t.rest), LAMBDA r :
                     POk([type |-> "Subshell", complete_command |-> cc.val,
                          redirs |-> r.val], r.rest))))

\* Parser::parse_subshell
parse_subshell(tokens) ==
    Try(parse_complete_command_loop(<<>>, tokens), LAMBDA cc :
        Try(read(cc.rest), LAMBDA t :
            IF t.val.kind # "CloseBrace" THEN PErr("expected ')' token")
            ELSE Try(parse_redirs(t.rest), LAMBDA r :
                     POk([type |-> "Subshell", complete_command |-> cc.val,
                          redirs |-> r.val], r.rest))))

\* Parser::run
ParserRun(tokens) ==
    Try(parse_complete_command(tokens), LAMBDA cc :
        Try(read(cc.rest), LAMBDA t :
            IF t.val.kind # "EndOfLine" THEN PErr("expected EOL")
            ELSE POk(cc.val, t.rest)))

\* parser::parse: the tree alone is returned
parse(tokens) == ParserRun(tokens)

(***************************************************************************)
(* model.rs: Result<T>.  Option<T> is a sequence of length at most one.    *)
(***************************************************************************)
ROk(val) == [ok |-> TRUE, val |-> val]
RErr(reason) == [ok |-> FALSE, err |-> reason]
None == <<>>
Some(x) == <<x>>

(***************************************************************************)
(* serializer.rs: every visitor takes the text written so far (out) and    *)
(* returns the text after its visit.                                       *)
(***************************************************************************)
\* Serializer::redirs
SerRedirs(out, redirs) ==
    LET o1 == IF Len(redirs.input) > 0
              THEN out \o <<"<">> \o redirs.input[1].filename
              ELSE out
        o2 == IF Len(redirs.output) > 0
              THEN (IF redirs.output[1].overwrite
                    THEN o1 \o <<">">>
                    ELSE o1 \o <<">", ">">>) \o redirs.output[1].filename
              ELSE o1
    IN ROk(o2)

\* Serializer::simple_command: the loop writing the arguments
RECURSIVE SerArguments(_, _)
SerArguments(out, arguments) ==
    IF arguments = <<>> THEN out
    ELSE LET o == out \o Head(arguments) IN
         SerArguments(IF Len(Tail(arguments)) > 0 THEN Append(o, " ") ELSE o,
                      Tail(arguments))

\* Serializer::simple_command
SerSimpleCommand(out, sc) == SerRedirs(SerArguments(out, sc.arguments), sc.redirs)

RECURSIVE SerCompleteCommandLoop(_, _)
RECURSIVE SerPipelineLoop(_, _)
RECURSIVE SerCommand(_, _)

\* Serializer::subshell
SerSubshell(out, ss) ==
    Try(SerCompleteCommandLoop(Append(out, "("), ss.complete_command.pipelines),
        LAMBDA body : SerRedirs(Append(body.val, ")"), ss.redirs))

\* Serializer::command
SerCommand(out, command) ==
    IF command.type = "SimpleCommand"
    THEN SerSimpleCommand(out, command)
    ELSE SerSubshell(out, command)

\* Serializer::pipeline: the loop over the commands
SerPipelineLoop(out, commands) ==
    IF commands = <<>> THEN ROk(out)
    ELSE Try(SerCommand(out, Head(commands)), LAMBDA c :
             SerPipelineLoop(
                 IF Len(Tail(commands)) > 0 THEN Append(c.val, "|") ELSE c.val,
                 Tail(commands)))

\* Serializer::pipeline
SerPipeline(out, pipeline) ==
    IF Len(pipeline.commands) <= 0 THEN RErr("empty pipeline")
    ELSE SerPipelineLoop(out, pipeline.commands)

\* Serializer::complete_command
SerCompleteCommandLoop(out, pipelines) ==
    IF pipelines = <<>> THEN ROk(out)
    ELSE Try(SerPipeline(out, Head(pipelines)), LAMBDA p :
             SerCompleteCommandLoop(
                 IF Len(Tail(pipelines)) > 0 THEN Append(p.val, ";") ELSE p.val,
                 Tail(pipelines)))

\* serializer::serialize
serialize(cc) == SerCompleteCommandLoop(<<>>, cc.pipelines)

(***************************************************************************)
(* translator.rs: verbose is the translator's flag, exe the outcome of     *)
(* std::env::current_exe (Ok(path) or Err).                                *)
(***************************************************************************)
\* Translator::get_current_exe
get_current_exe(exe) == exe

\* Translator::subshell giving the command an empty RedirectList
TrSubshell_no_redirs(input, verbose0, exe) ==
    Try(get_current_exe(exe), LAMBDA e :
        Try(serialize(input.complete_command), LAMBDA serialized :
            ROk([type |-> "SimpleCommand",
                 arguments |-> <<e.val>>
                               \o (IF verbose0 THEN <<<<"-", "x">>>> ELSE <<>>)
                               \o <<<<"-", "c">>>>
                               \o <<serialized.val>>,
                 redirs |-> RedirectListNew])))

\* Translator::subshell
TrSubshell(input, verbose0, exe) ==
    Try(get_current_exe(exe), LAMBDA e :
        Try(serialize(input.complete_command), LAMBDA serialized :
            ROk([type |-> "SimpleCommand",
                 arguments |-> <<e.val>>
                               \o (IF verbose0 THEN <<<<"-", "x">>>> ELSE <<>>)
                               \o <<<<"-", "c">>>>
                               \o <<serialized.val>>,
                 redirs |-> input.redirs])))

\* Translator::command
TrCommand(input, verbose0, exe) ==
    IF input.type = "SimpleCommand" THEN ROk(input)
    ELSE TrSubshell(input, verbose0, exe)

\* Translator::single_command
TrSingleCommand(input, sync) ==
    IF Len(input.redirs.input) > 1 THEN RErr("more than one input redirection")
    ELSE IF Len(input.redirs.output) > 1 THEN RErr("more than one output redirection")
    ELSE ROk([type |-> "SingleCommand",
              arguments |-> input.arguments,
              input |-> IF Len(input.redirs.input) = 1
                        THEN Some(input.redirs.input[1]) ELSE None,
              output |-> IF Len(input.redirs.output) = 1
                         THEN Some(input.redirs.output[1]) ELSE None,
              sync |-> sync])

\* Translator::new_source: the source and the deque left after pop_front
new_source(input) ==
    IF input = <<>> THEN RErr("unexpected empty deque")
    ELSE IF Len(Head(input).redirs.input) > 1
         THEN RErr("more than one input redirection")
    ELSE IF Len(Head(input).redirs.output) > 0
         THEN RErr("output redirection for pipeline source")
    ELSE ROk([cmd |-> [arguments |-> Head(input).arguments,
                       input |-> IF Len(Head(input).redirs.input) = 1
                                 THEN Some(Head(input).redirs.input[1]) ELSE None],
              rest |-> Tail(input)])

\* Translator::new_filters: the filters and the deque left (its last element)
RECURSIVE new_filters_loop(_, _)
new_filters_loop(output, input) ==
    IF Len(input) > 1
    THEN IF Len(Head(input).redirs.input) > 0
         THEN RErr("input redirection for pipeline filter")
         ELSE IF Len(Head(input).redirs.output) > 0
         THEN RErr("output redirection for pipeline filter")
         ELSE new_filters_loop(Append(output, [arguments |-> Head(input).arguments]),
                               Tail(input))
    ELSE ROk([cmd |-> output, rest |-> input])

\* Translator::new_filters
new_filters(input) == new_filters_loop(<<>>, input)

\* Translator::new_sink not looking at the input redirections
new_sink_any_input(input) ==
    IF input = <<>> THEN RErr("unexpected empty deque")
    ELSE IF Len(Head(input).redirs.output) > 1
         THEN RErr("more than one output redirection")
    ELSE ROk([cmd |-> [arguments |-> Head(input).arguments,
                       output |-> IF Len(Head(input).redirs.output) = 1
                                  THEN Some(Head(input).redirs.output[1]) ELSE None],
              rest |-> Tail(input)])

\* Translator::new_sink
new_sink(input) ==
    IF input = <<>> THEN RErr("unexpected empty deque")
    ELSE IF Len(Head(input).redirs.input) > 0
         THEN RErr("input redirection for pipeline sink")
    ELSE IF Len(Head(input).redirs.output) > 1
         THEN RErr("more than one output redirection")
    ELSE ROk([cmd |-> [arguments |-> Head(input).arguments,
                       output |-> IF Len(Head(input).redirs.output) = 1
                                  THEN Some(Head(input).redirs.output[1]) ELSE None],
              rest |-> Tail(input)])

\* Translator::pipelined_commands leaving sync as PipelinedCommands::new set it
TrPipelinedCommands_sync_unset(input, sync) ==
    Try(new_source(input), LAMBDA source :
        Try(new_filters(source.val.rest), LAMBDA filters :
            Try(new_sink(filters.val.rest), LAMBDA sink :
                ROk([type |-> "PipelinedCommands",
                     source |-> source.val.cmd,
                     filters |-> filters.val.cmd,
                     sink |-> sink.val.cmd,
                     sync |-> FALSE]))))

\* Translator::pipelined_commands
TrPipelinedCommands(input, sync) ==
    Try(new_source(input), LAMBDA source :
        Try(new_filters(source.val.rest), LAMBDA filters :
            Try(new_sink(filters.val.rest), LAMBDA sink :
                ROk([type |-> "PipelinedCommands",
                     source |-> source.val.cmd,
                     filters |-> filters.val.cmd,
                     sink |-> sink.val.cmd,
                     sync |-> sync]))))

\* Translator::pipeline: the loop that visits each command
RECURSIVE TrCommandsLoop(_, _, _, _)
TrCommandsLoop(intermediate, input, verbose0, exe) ==
    IF input = <<>> THEN ROk(intermediate)
    ELSE Try(TrCommand(Head(input), verbose0, exe), LAMBDA scmd :
             TrCommandsLoop(Append(intermediate, scmd.val), Tail(input), verbose0, exe))

\* Translator::pipeline
TrPipeline(input, verbose0, exe) ==
    Try(TrCommandsLoop(<<>>, input.commands, verbose0, exe), LAMBDA intermediate :
        IF Len(intermediate.val) < 1 THEN RErr("no intermediate commands")
        ELSE IF Len(intermediate.val) = 1
             THEN TrSingleCommand(intermediate.val[1], input.sync)
        ELSE TrPipelinedCommands(intermediate.val, input.sync))

\* Translator::complete_command pushing each command at the front of the plan
RECURSIVE TrCompleteCommandLoop_push_front(_, _, _, _)
TrCompleteCommandLoop_push_front(output, pipelines, verbose0, exe) ==
    IF pipelines = <<>> THEN ROk([pipelines |-> output])
    ELSE IF Len(Head(pipelines).commands) < 1
         THEN TrCompleteCommandLoop_push_front(output, Tail(pipelines), verbose0, exe)
    ELSE Try(TrPipeline(Head(pipelines), verbose0, exe), LAMBDA p :
             TrCompleteCommandLoop_push_front(<<p.val>> \o output, Tail(pipelines),
                                              verbose0, exe))

\* Translator::complete_command: the loop, output being the plan so far
RECURSIVE TrCompleteCommandLoop(_, _, _, _)
TrCompleteCommandLoop(output, pipelines, verbose0, exe) ==
    IF pipelines = <<>> THEN ROk([pipelines |-> output])
    ELSE IF Len(Head(pipelines).commands) < 1
         THEN TrCompleteCommandLoop(output, Tail(pipelines), verbose0, exe)
    ELSE Try(TrPipeline(Head(pipelines), verbose0, exe), LAMBDA p :
             TrCompleteCommandLoop(Append(output, p.val), Tail(pipelines),
                                   verbose0, exe))

\* translator::translate
translate(cc, verbose0, exe) == TrCompleteCommandLoop(<<>>, cc.pipelines, verbose0, exe)

(***************************************************************************)
(* The state of the shell process and of its children.                     *)
(***************************************************************************)
VARIABLES
    mode,      \* "c" when the shell was started with -c COMMANDS, else "repl"
    stage,     \* the value of --stage ("" when absent)
    verbose,   \* the -x flag
    pc,        \* where the shell process is
    nread,     \* the number of input lines taken so far
    cmd,       \* shrun: the input line
    tokens,    \* shrun: Option of the scanner's output
    tree,      \* shrun: Option of the parser's output
    plan,      \* shrun: Option of the translator's output
    loc,       \* Interpreter::run: the commands not yet popped from the plan
    ip,        \* Interpreter::run: the number of commands popped from the plan
    cur,       \* pipelined_commands: Option of the pipeline being executed
    children,  \* the children deque of the pipeline (Executor::children)
    rxall,     \* pipelined_commands: the deque of pipe readers
    held,      \* the pipe ends and files the shell process holds open
    procs,     \* MANAGER.procs, the children the reaper holds
    child,     \* the child processes: id -> [entry, pos, argv, stdin, stdout, status]
    nchild,    \* the number of children spawned for this line
    npipe,     \* the number of pipes created for this line
    cwd,       \* the working directory of the shell process
    err,       \* Option of the error the current line ends with
    log,       \* the calls the shell has made for this line, in order
    files,     \* the file system: file name -> content, for the files that exist
    wrote,     \* the children that have written their output
    text,      \* Option of what serialize made of the tree
    tree2      \* Option of what a shell given text as its line parses

vars == <<mode, stage, verbose, pc, nread, cmd, tokens, tree, plan, loc, ip, cur,
          children, rxall, held, procs, child, nchild, npipe, cwd, err, log,
          files, wrote, text, tree2>>

\* One call of the shell: op names it, arg is the child, pipe or file it is
\* about, entry the index in the plan of the command it is made for (0: none).
Ev(op, arg, entry) == [op |-> op, arg |-> arg, entry |-> entry]

Range(q) == {q[i] : i \in DOMAIN q}

(***************************************************************************)
(* process.rs, background.rs: the manager of background processes          *)
(***************************************************************************)
\* Manager::add
ManagerAdd(q, proc) == Append(q, proc)

\* Manager::addq popping the back of procs0
ManagerAddq_pop_back(q, procs0) ==
    q \o [i \in 1..Len(procs0) |-> procs0[Len(procs0) + 1 - i]]

\* Manager::addq (with to_child_wrapper): pop_front from procs0, add to q
RECURSIVE ManagerAddq(_, _)
ManagerAddq(q, procs0) ==
    IF Len(procs0) > 0
    THEN ManagerAddq(ManagerAdd(q, Head(procs0)), Tail(procs0))
    ELSE q

\* impl Drop for Executor: the children left in the group go to the manager
RECURSIVE ExecutorDrop(_, _)
ExecutorDrop(q, children0) ==
    IF Len(children0) > 0
    THEN ExecutorDrop(ManagerAdd(q, Head(children0)), Tail(children0))
    ELSE q

\* Child::try_wait on a child in status st, fail saying whether the call
\* itself fails: "err" for Err(_), "exited" for Ok(Some(_)), "running" for
\* Ok(None)
try_wait(st, fail) ==
    IF fail THEN "err" ELSE IF st = "exited" THEN "exited" ELSE "running"

\* Manager::collect keeping the children whose try_wait failed
RECURSIVE ManagerCollectLoop_keeps_err(_, _, _)
ManagerCollectLoop_keeps_err(running, q, outcome) ==
    IF Len(q) > 0
    THEN ManagerCollectLoop_keeps_err(
             IF Head(outcome) \in {"running", "err"}
             THEN Append(running, Head(q)) ELSE running,
             Tail(q), Tail(outcome))
    ELSE running

\* Manager::collect pushing the running children at the front
RECURSIVE ManagerCollectLoop_push_front(_, _, _)
ManagerCollectLoop_push_front(running, q, outcome) ==
    IF Len(q) > 0
    THEN ManagerCollectLoop_push_front(
             IF Head(outcome) = "running" THEN <<Head(q)>> \o running ELSE running,
             Tail(q), Tail(outcome))
    ELSE running

\* Manager::collect: q is self.procs, outcome[i] what try_wait returns for the
\* i-th of them; the result is the new self.procs
RECURSIVE ManagerCollectLoop(_, _, _)
ManagerCollectLoop(running, q, outcome) ==
    IF Len(q) > 0
    THEN ManagerCollectLoop(
             IF Head(outcome) = "running" THEN Append(running, Head(q)) ELSE running,
             Tail(q), Tail(outcome))
    ELSE running

ManagerCollect(q, outcome) == ManagerCollectLoop(<<>>, q, outcome)

\* The try_wait calls Manager::collect makes, in order
CollectEvents(q) == [i \in DOMAIN q |-> Ev("try_wait", q[i], 0)]

\* The status of a child after Manager::collect called try_wait on it: an
\* exited child has been reaped, a child whose check failed is given up
AfterTryWait(st, outcome) ==
    IF outcome = "exited" THEN "waited"
    ELSE IF outcome = "err" THEN "error"
    ELSE st


(***************************************************************************)
(* interp.rs.  Every function that opens files, creates a pipe or spawns   *)
(* takes x = [entry, id, pos, pipe] (the index in the plan of the command  *)
(* it works for, the identity and the position in the pipeline of the      *)
(* child it may spawn, the identity of the pipe it may create) and         *)
(* o = [open_in, open_out, pipe, spawn, chdir, stderr], saying which of    *)
(* the operating system's calls succeed (stderr: the write of the trace    *)
(* line to standard error).  It returns res (its Result, or Panic when the *)
(* function panicked and did not return), ev (the calls it made) and held  *)
(* (the pipe ends and files of its own that the shell still holds open     *)
(* when it returns).                                                       *)
(***************************************************************************)
Outcomes == [open_in : BOOLEAN, open_out : BOOLEAN, pipe : BOOLEAN,
             spawn : BOOLEAN, chdir : BOOLEAN, stderr : BOOLEAN]

\* eprintln!, println! and unwrap() on a write that failed: the thread
\* panics, nothing after the macro runs and the process ends
Panic == [ok |-> FALSE, panic |-> TRUE]

\* res is the panic, not a Result
Panicked(res) == ~res.ok /\ "panic" \in DOMAIN res

\* the calls single_command, source_command, filter_command and sink_command
\* can make: the results of the others are not looked at
SingleOutcomes == {o \in Outcomes : o.pipe}
SourceOutcomes == {o \in Outcomes : o.open_out /\ o.chdir}
FilterOutcomes == {o \in Outcomes : o.open_in /\ o.open_out /\ o.chdir}
SinkOutcomes == {o \in Outcomes : o.open_in /\ o.pipe /\ o.chdir}

Ret(res, ev, h) == [res |-> res, ev |-> ev, held |-> h]

\* r with the calls ev made before it
Prepend(ev, r) == Ret(r.res, ev \o r.ev, r.held)

\* The `?` of Rust on a step r of a function: r if r failed (what the
\* function had opened before is dropped and closed), else what F goes on to
\* do, after the calls of r; a panic of the step unwinds the same way
After(r, F(_)) == IF r.res.ok THEN Prepend(r.ev, F(r)) ELSE r

\* Interpreter::maybe_redirect_input
maybe_redirect_input(input, x, o) ==
    IF input = None THEN Ret(ROk(None), <<>>, {})
    ELSE IF o.open_in
         THEN Ret(ROk(Some(<<"in", input[1].filename>>)),
                  <<Ev("open_in", input[1].filename, x.entry)>>,
                  {<<"in", input[1].filename>>})
         ELSE Ret(RErr("open"), <<Ev("open_in_failed", input[1].filename, x.entry)>>, {})

\* Interpreter::maybe_redirect_output
maybe_redirect_output(output, x, o) ==
    IF output = None THEN Ret(ROk(None), <<>>, {})
    ELSE IF o.open_out
         THEN Ret(ROk(Some(<<IF output[1].overwrite THEN "out" ELSE "app",
                               output[1].filename>>)),
                  <<Ev(IF output[1].overwrite THEN "open_out" ELSE "open_append",
                       output[1].filename, x.entry)>>,
                  {<<IF output[1].overwrite THEN "out" ELSE "app",
                     output[1].filename>>})
         ELSE Ret(RErr("open"), <<Ev("open_out_failed", output[1].filename, x.entry)>>, {})

\* The file system after the calls ev: OpenOptions write(true), create(true),
\* append(!overwrite) creates the file when it is absent, and leaves the
\* content of an existing file as it is
RECURSIVE Opened(_, _)
Opened(fs, ev) ==
    IF ev = <<>> THEN fs
    ELSE Opened(IF Head(ev).op \in {"open_out", "open_append"}
                   /\ Head(ev).arg \notin DOMAIN fs
                THEN (Head(ev).arg :> <<>>) @@ fs ELSE fs,
                Tail(ev))

\* The content of a file after data is written through a handle of kind
\* "app" (O_APPEND: at the end) or "out" (at offset 0, over what is there)
Written(old, kind, data) ==
    IF kind = "app" THEN old \o data
    ELSE data \o SubSeq(old, Len(data) + 1, Len(old))

\* Interpreter::wrap_os_pipe
wrap_os_pipe(x, o) ==
    IF o.pipe
    THEN Ret(ROk([rx |-> <<"r", x.pipe>>, wx |-> <<"w", x.pipe>>]),
             <<Ev("pipe", x.pipe, x.entry)>>,
             {<<"r", x.pipe>>, <<"w", x.pipe>>})
    ELSE Ret(RErr("pipe"), <<Ev("pipe_failed", x.pipe, x.entry)>>, {})

\* Interpreter::maybe_debug: the trace line written to standard error;
\* eprintln! panics when the write fails
maybe_debug(argv0, args, x, o) ==
    IF ~verbose THEN Ret(ROk(<<>>), <<>>, {})
    ELSE IF o.stderr
    THEN Ret(ROk(<<>>), <<Ev("trace", <<argv0>> \o args, x.entry)>>, {})
    ELSE Ret(Panic, <<Ev("trace_failed", <<argv0>> \o args, x.entry)>>, {})

\* process::spawn giving the child a copy of stdout and keeping its own
spawn_keeps_stdout(argv0, args, stdin, stdout, x, o) ==
    IF o.spawn
    THEN Ret(ROk([kind |-> "spawn", id |-> x.id,
                  rec |-> [entry |-> x.entry, pos |-> x.pos,
                           argv |-> <<argv0>> \o args,
                           stdin |-> stdin, stdout |-> stdout,
                           status |-> "running"]]),
             <<Ev("spawn", x.id, x.entry)>>, Range(stdout))
    ELSE Ret(RErr("spawn"), <<Ev("spawn_failed", x.id, x.entry)>>, {})

\* process::spawn (Executor::spawn): stdin and stdout are moved into the
\* Command, which is dropped on return: the shell keeps neither
spawn(argv0, args, stdin, stdout, x, o) ==
    IF o.spawn
    THEN Ret(ROk([kind |-> "spawn", id |-> x.id,
                  rec |-> [entry |-> x.entry, pos |-> x.pos,
                           argv |-> <<argv0>> \o args,
                           stdin |-> stdin, stdout |-> stdout,
                           status |-> "running"]]),
             <<Ev("spawn", x.id, x.entry)>>, {})
    ELSE Ret(RErr("spawn"), <<Ev("spawn_failed", x.id, x.entry)>>, {})

\* Interpreter::common_executor
common_executor(argv0, args, stdin, stdout, x, o) ==
    IF Panicked(maybe_debug(argv0, args, x, o).res)
    THEN maybe_debug(argv0, args, x, o)
    ELSE Prepend(maybe_debug(argv0, args, x, o).ev,
                 spawn(argv0, args, stdin, stdout, x, o))

\* Interpreter::builtin_cd going to its first argument when it has several
builtin_cd_first_arg(args, x, o) ==
    IF Len(args) < 1 THEN Ret(RErr("usage: cd <directory>"), <<>>, {})
    ELSE IF o.chdir
         THEN Ret(ROk([kind |-> "cd", dir |-> args[1]]),
                  <<Ev("chdir", args[1], x.entry)>>, {})
         ELSE Ret(RErr("chdir"), <<Ev("chdir_failed", args[1], x.entry)>>, {})

\* Interpreter::builtin_cd: Ok carries the new working directory
builtin_cd(args, x, o) ==
    IF Len(args) # 1 THEN Ret(RErr("usage: cd <directory>"), <<>>, {})
    ELSE IF o.chdir
         THEN Ret(ROk([kind |-> "cd", dir |-> args[1]]),
                  <<Ev("chdir", args[1], x.entry)>>, {})
         ELSE Ret(RErr("chdir"), <<Ev("chdir_failed", args[1], x.entry)>>, {})

\* Interpreter::single_command opening the output before the input
single_command_output_first(sc, x, o) ==
    IF Len(sc.arguments) < 1
    THEN Ret(ROk([kind |-> "empty"]), <<>>, {})
    ELSE IF Head(sc.arguments) = <<"c", "d">>
    THEN builtin_cd(Tail(sc.arguments), x, o)
    ELSE After(maybe_redirect_output(sc.output, x, o), LAMBDA rout :
         After(maybe_redirect_input(sc.input, x, o), LAMBDA rin :
               common_executor(Head(sc.arguments), Tail(sc.arguments),
                               rin.res.val, rout.res.val, x, o)))

\* Interpreter::single_command up to the spawn; Ok carries how it went on:
\* kind "empty" (no argument), "cd" (the builtin) or "spawn" (the child)
single_command(sc, x, o) ==
    IF Len(sc.arguments) < 1
    THEN Ret(ROk([kind |-> "empty"]), <<>>, {})
    ELSE IF Head(sc.arguments) = <<"c", "d">>
    THEN builtin_cd(Tail(sc.arguments), x, o)
    ELSE After(maybe_redirect_input(sc.input, x, o), LAMBDA rin :
         After(maybe_redirect_output(sc.output, x, o), LAMBDA rout :
               common_executor(Head(sc.arguments), Tail(sc.arguments),
                               rin.res.val, rout.res.val, x, o)))

\* What source_command and filter_command return after the spawn c: the
\* child and the reader of the pipe pp, which the shell goes on holding
WithReader(c, pp) ==
    IF c.res.ok
    THEN Ret(ROk([child |-> c.res.val, rx |-> pp.res.val.rx]), c.ev,
             c.held \cup {pp.res.val.rx})
    ELSE c

\* Interpreter::source_command: Ok carries the child and the pipe reader
source_command(sc, x, o) ==
    IF Len(sc.arguments) < 1
    THEN Ret(RErr("pipeline with empty source command"), <<>>, {})
    ELSE After(maybe_redirect_input(sc.input, x, o), LAMBDA rin :
         After(wrap_os_pipe(x, o), LAMBDA pp :
               WithReader(common_executor(Head(sc.arguments), Tail(sc.arguments),
                                          rin.res.val, Some(pp.res.val.wx), x, o),
                          pp)))

\* Interpreter::filter_command giving the filter the reader of its own pipe
filter_command_own_reader(fc, rx, x, o) ==
    IF Len(fc.arguments) < 1
    THEN Ret(RErr("pipeline with empty filter command"), <<>>, {})
    ELSE After(wrap_os_pipe(x, o), LAMBDA pp :
               WithReader(common_executor(Head(fc.arguments), Tail(fc.arguments),
                                          Some(pp.res.val.rx), Some(pp.res.val.wx),
                                          x, o),
                          pp))

\* Interpreter::filter_command: rx is the reader of the previous pipe
filter_command(fc, rx, x, o) ==
    IF Len(fc.arguments) < 1
    THEN Ret(RErr("pipeline with empty filter command"), <<>>, {})
    ELSE After(wrap_os_pipe(x, o), LAMBDA pp :
               WithReader(common_executor(Head(fc.arguments), Tail(fc.arguments),
                                          Some(rx), Some(pp.res.val.wx), x, o),
                          pp))

\* What sink_command returns after the spawn c
WithoutReader(c) ==
    IF c.res.ok THEN Ret(ROk([child |-> c.res.val]), c.ev, c.held) ELSE c

\* Interpreter::sink_command: Ok carries the child
sink_command(sc, rx, x, o) ==
    IF Len(sc.arguments) < 1
    THEN Ret(RErr("pipeline with empty sink command"), <<>>, {})
    ELSE After(maybe_redirect_output(sc.output, x, o), LAMBDA rou :
               WithoutReader(common_executor(Head(sc.arguments), Tail(sc.arguments),
                                             Some(rx), rou.res.val, x, o)))

\* Interpreter::kill_children (Executor::kill_children): the kill calls of its
\* loop, in order; wait_for_children follows
KillEvents(q, entry) == [i \in DOMAIN q |-> Ev("kill", q[i], entry)]

\* Child::kill on a child in status st, ok saying whether the signal was sent
kill(st, ok) == IF ok /\ st = "running" THEN "exited" ELSE st

\* wait_for_children popping the front of the deque
wait_pop_front(q) == [c |-> Head(q), rest |-> Tail(q)]

\* wait_for_children waiting for the sink only
wait_pop_sink_only(q) == [c |-> q[Len(q)], rest |-> <<>>]

\* Interpreter::wait_for_children (Executor::wait_for_children): one turn of
\* its loop takes the child to wait for from the back of the deque
wait_pop(q) == [c |-> q[Len(q)], rest |-> SubSeq(q, 1, Len(q) - 1)]


(***************************************************************************)
(* main.rs                                                                 *)
(***************************************************************************)
\* PeriodicReaper::reap: the reaper checks the children it holds
reap(q, outcome) == ManagerCollect(q, outcome)

\* println! of a stage's artifact, then `return Ok(())`: the macro panics
\* when the write to standard output fails (out FALSE)
Printed(out) == IF out THEN ROk(<<>>) ELSE Panic

\* What shrun leaves: the reaper's children, the calls made, the artifacts
\* of the stages that ran, whether shrun returned or panicked before
\* interp.run (done) and, if so, its Result (or Panic)
ShrunRet(q, ev, toks, tr, pl, done, res) ==
    [procs |-> q, ev |-> ev, tokens |-> toks, tree |-> tr, plan |-> pl,
     done |-> done, res |-> res]

\* v handed to F (a `let v = ...;` of the source)
Bind(v, F(_)) == F(v)

\* shrun polling the reaper after the scan
shrun_scan_first(q, outcome, cmdline, stg, vb, exe, out) ==
    Bind(reap(q, outcome), LAMBDA q1 :
    Bind(scan(cmdline), LAMBDA toks :
    Bind(<<Ev("scan", <<>>, 0), Ev("reap", <<>>, 0)>> \o CollectEvents(q), LAMBDA ev2 :
    IF stg = "scan"
    THEN ShrunRet(q1, ev2, Some(toks), None, None, TRUE, Printed(out))
    ELSE
    Bind(parse(toks), LAMBDA t :
    Bind(Append(ev2, Ev("parse", <<>>, 0)), LAMBDA ev3 :
    IF ~t.ok
    THEN ShrunRet(q1, ev3, Some(toks), None, None, TRUE, RErr(t.err))
    ELSE IF stg = "parse"
    THEN ShrunRet(q1, ev3, Some(toks), Some(t.val), None, TRUE, Printed(out))
    ELSE
    Bind(translate(t.val, vb, exe), LAMBDA l :
    Bind(Append(ev3, Ev("translate", <<>>, 0)), LAMBDA ev4 :
    IF ~l.ok
    THEN ShrunRet(q1, ev4, Some(toks), Some(t.val), None, TRUE, RErr(l.err))
    ELSE IF stg = "plan"
    THEN ShrunRet(q1, ev4, Some(toks), Some(t.val), Some(l.val), TRUE, Printed(out))
    ELSE ShrunRet(q1, ev4, Some(toks), Some(t.val), Some(l.val), FALSE,
                  ROk(<<>>)))))))))

\* shrun, up to the call of interp.run; out: the write of println! succeeds
shrun(q, outcome, cmdline, stg, vb, exe, out) ==
    Bind(reap(q, outcome), LAMBDA q1 :
    Bind(<<Ev("reap", <<>>, 0)>> \o CollectEvents(q), LAMBDA ev1 :
    Bind(scan(cmdline), LAMBDA toks :
    Bind(Append(ev1, Ev("scan", <<>>, 0)), LAMBDA ev2 :
    IF stg = "scan"
    THEN ShrunRet(q1, ev2, Some(toks), None, None, TRUE, Printed(out))
    ELSE
    Bind(parse(toks), LAMBDA t :
    Bind(Append(ev2, Ev("parse", <<>>, 0)), LAMBDA ev3 :
    IF ~t.ok
    THEN ShrunRet(q1, ev3, Some(toks), None, None, TRUE, RErr(t.err))
    ELSE IF stg = "parse"
    THEN ShrunRet(q1, ev3, Some(toks), Some(t.val), None, TRUE, Printed(out))
    ELSE
    Bind(translate(t.val, vb, exe), LAMBDA l :
    Bind(Append(ev3, Ev("translate", <<>>, 0)), LAMBDA ev4 :
    IF ~l.ok
    THEN ShrunRet(q1, ev4, Some(toks), Some(t.val), None, TRUE, RErr(l.err))
    ELSE IF stg = "plan"
    THEN ShrunRet(q1, ev4, Some(toks), Some(t.val), Some(l.val), TRUE, Printed(out))
    ELSE ShrunRet(q1, ev4, Some(toks), Some(t.val), Some(l.val), FALSE,
                  ROk(<<>>))))))))))

(***************************************************************************)
(* The inputs of the model.                                                *)
(***************************************************************************)
\* the values of --stage
Stages == {"", "scan", "parse", "plan", "run"}

\* the path std::env::current_exe returns
ExePath == <<"s", "h">>

\* the input lines: single commands, pipelines of two to four commands,
\* with and without `&`, redirections, the builtin with no, one and two
\* arguments and inside a pipeline, a subshell, commands
\* without words, and lines the parser or the translator rejects
Lines == {
    <<>>,
    <<"a">>,
    <<"a", "&">>,
    <<"a", "<", "f", ">", "g">>,
    <<"c", "d", " ", "d">>,
    <<"c", "d">>,
    <<"c", "d", " ", "d", " ", "e">>,
    <<"a", "|", "c", "d", " ", "d">>,
    <<"a", "|", "b">>,
    <<"a", "|", "b", "&">>,
    <<"a", "|", "b", "|", "c">>,
    <<"a", "|", "b", "|", "c", "&">>,
    <<"a", "|", "b", "|", "c", "|", "d">>,
    <<"a", "<", "f", "|", "b", ">", ">", "g">>,
    <<"a", "&", "b">>,
    <<"a", ";", "b", "|", "c">>,
    <<"a", "|", "b", "&", "c">>,
    <<"a", ";", "b", "&", "c", ";", "d">>,
    <<"a", "|">>,
    <<"|", "a">>,
    <<"a", "|", "|", "b">>,
    <<"(", "a", ";", "b", ")", "|", "c">>,
    <<"a", ">">>,
    <<"(", "a">>,
    <<"a", ";", "(", "b">>,
    <<"a", "<", "f", "<", "g">>,
    <<"a", "|", "b", "<", "f">>
}

(***************************************************************************)
(* The state after main has parsed its arguments.                          *)
(***************************************************************************)
\* what the child processes write to their standard output
Output == <<"o">>

\* the content of the output file of the input lines, when it exists before
\* the shell starts
OldContent == <<"x", "y">>

\* the file systems the shell may start in: the input file of the input
\* lines exists; their output file is absent, or exists
InitialFiles == {(<<"f">> :> <<"i">>),
                 (<<"f">> :> <<"i">>) @@ (<<"g">> :> OldContent)}

Init ==
    /\ mode \in {"repl", "c"}
    /\ stage \in Stages
    /\ verbose \in BOOLEAN
    /\ pc = "getcmd"
    /\ nread = 0
    /\ cmd = <<>>
    /\ tokens = None
    /\ tree = None
    /\ plan = None
    /\ loc = <<>>
    /\ ip = 0
    /\ cur = None
    /\ children = <<>>
    /\ rxall = <<>>
    /\ held = {}
    /\ procs = <<>>
    /\ child = <<>>
    /\ nchild = 0
    /\ npipe = 0
    /\ cwd = <<"/">>
    /\ err = None
    /\ log = <<>>
    /\ files \in InitialFiles
    /\ wrote = {}
    /\ text = None
    /\ tree2 = None

\* where main goes on after shrunx: exit(0) after -c, else the next getcmd
AfterLine == IF mode = "c" THEN "exit" ELSE "getcmd"

\* shrunx after shrun returned Err: eprintln! prints the error and main goes
\* on, or panics when the write to standard error fails (report FALSE)
AfterError(report) == IF report THEN AfterLine ELSE "panic"

\* the number of calls named op among the calls ev
RECURSIVE Count(_, _)
Count(ev, op) ==
    IF ev = <<>> THEN 0
    ELSE (IF Head(ev).op = op THEN 1 ELSE 0) + Count(Tail(ev), op)

\* main: the next input line is taken (the -c argument, or getcmd's line)
GetCmd ==
    /\ pc = "getcmd"
    /\ nread < MaxLines
    /\ \E l \in Lines : cmd' = l
    /\ nread' = nread + 1
    /\ pc' = "shrun"
    /\ tokens' = None /\ tree' = None /\ plan' = None
    /\ loc' = <<>> /\ ip' = 0
    /\ nchild' = 0 /\ npipe' = 0
    /\ err' = None
    /\ log' = <<>>
    /\ child' = [c \in Range(procs) |-> child[c]]
    /\ wrote' = wrote \cap Range(procs)
    /\ UNCHANGED <<files, text, tree2,
                   mode, stage, verbose, cur, children, rxall, held, procs, cwd>>

\* main: getcmd returns Err (end of input) and the loop breaks
GetCmdEOF ==
    /\ pc = "getcmd"
    /\ mode = "repl"
    /\ pc' = "exit"
    /\ UNCHANGED <<wrote, files, text, tree2,
                   mode, stage, verbose, nread, cmd, tokens, tree, plan, loc, ip,
                   cur, children, rxall, held, procs, child, nchild, npipe, cwd,
                   err, log>>

\* main: getcmd panics, the prompt could not be written to standard output
\* (flush().unwrap())
GetCmdPanic ==
    /\ pc = "getcmd"
    /\ mode = "repl"
    /\ pc' = "panic"
    /\ UNCHANGED <<wrote, files, text, tree2,
                   mode, stage, verbose, nread, cmd, tokens, tree, plan, loc, ip,
                   cur, children, rxall, held, procs, child, nchild, npipe, cwd,
                   err, log>>

\* The children after Manager::collect checked those of q
Collected(ch, q, outcome) ==
    [c \in DOMAIN ch |->
        IF \E i \in DOMAIN q : q[i] = c
        THEN [ch[c] EXCEPT !.status =
                 AfterTryWait(@, outcome[CHOOSE i \in DOMAIN q : q[i] = c])]
        ELSE ch[c]]

\* shrunx after shrun returned r or panicked, or interp.run entered
ShrunDo(outcome, r, report) ==
    /\ procs' = r.procs
    /\ child' = Collected(child, procs, outcome)
    /\ log' = log \o r.ev
    /\ tokens' = r.tokens /\ tree' = r.tree /\ plan' = r.plan
    /\ IF r.done
       THEN /\ pc' = IF Panicked(r.res) THEN "panic"
                     ELSE IF r.res.ok THEN AfterLine ELSE AfterError(report)
            /\ err' = IF r.res.ok \/ Panicked(r.res) THEN None ELSE Some(r.res.err)
            /\ loc' = <<>>
       ELSE /\ pc' = "run"
            /\ err' = None
            /\ loc' = r.plan[1].pipelines

\* what try_wait returns for each child of q, fail being the positions in q
\* of the children for which the call itself fails
TryWaitAll(ch, q, fail) == [i \in DOMAIN q |-> try_wait(ch[q[i]].status, i \in fail)]

\* shrunx and shrun: reap, scan, parse, translate; then interp.run starts
\* or shrun returns
Shrun ==
    /\ pc = "shrun"
    /\ \E fail \in SUBSET DOMAIN procs, exe \in {ROk(ExePath), RErr("current_exe")},
          out \in BOOLEAN, report \in BOOLEAN :
        ShrunDo(TryWaitAll(child, procs, fail),
                shrun(procs, TryWaitAll(child, procs, fail), cmd, stage, verbose, exe,
                      out),
                report)
    /\ UNCHANGED <<wrote, files, text, tree2,
                   mode, stage, verbose, nread, cmd, ip, cur, children, rxall, held,
                   nchild, npipe, cwd>>

\* Interpreter::run: the plan is exhausted and run returns Ok
RunDone ==
    /\ pc = "run"
    /\ loc = <<>>
    /\ pc' = AfterLine
    /\ UNCHANGED <<wrote, files, text, tree2,
                   mode, stage, verbose, nread, cmd, tokens, tree, plan, loc, ip,
                   cur, children, rxall, held, procs, child, nchild, npipe, cwd,
                   err, log>>

\* The identities handed to the function that starts the next child: entry
\* is the index in the plan of the command it belongs to
X(entry) == [entry |-> entry, id |-> <<nread, nchild + 1>>,
             pos |-> Len(children) + 1, pipe |-> <<nread, npipe + 1>>]

\* single_command waiting for its child whatever sc.sync says
SingleCommandDo_waits(sc, r, report) ==
    /\ ip' = ip + 1
    /\ log' = log \o r.ev
    /\ held' = held \cup r.held
    /\ IF Panicked(r.res)
       THEN /\ pc' = "panic_run" /\ loc' = Tail(loc)
            /\ UNCHANGED <<err, cwd, child, nchild, children, procs>>
       ELSE IF ~r.res.ok
       THEN /\ pc' = AfterError(report) /\ err' = Some(r.res.err) /\ loc' = <<>>
            /\ UNCHANGED <<cwd, child, nchild, children, procs>>
       ELSE /\ err' = err
            /\ loc' = Tail(loc)
            /\ IF r.res.val.kind = "spawn"
               THEN /\ child' = (r.res.val.id :> r.res.val.rec) @@ child
                    /\ nchild' = nchild + 1
                    /\ cwd' = cwd
                    /\ children' = <<r.res.val.id>>
                    /\ pc' = "single_wait"
                    /\ procs' = procs
               ELSE /\ cwd' = IF r.res.val.kind = "cd" THEN r.res.val.dir ELSE cwd
                    /\ pc' = "run"
                    /\ UNCHANGED <<child, nchild, children, procs>>

\* single_command whose error does not stop run: the next command is started
SingleCommandDo_goes_on(sc, r, report) ==
    /\ ip' = ip + 1
    /\ log' = log \o r.ev
    /\ held' = held \cup r.held
    /\ loc' = Tail(loc)
    /\ IF Panicked(r.res)
       THEN /\ pc' = "panic_run"
            /\ UNCHANGED <<err, cwd, child, nchild, children, procs>>
       ELSE IF ~r.res.ok
       THEN /\ pc' = "run" /\ err' = Some(r.res.err)
            /\ UNCHANGED <<cwd, child, nchild, children, procs>>
       ELSE /\ err' = err
            /\ IF r.res.val.kind = "spawn"
               THEN /\ child' = (r.res.val.id :> r.res.val.rec) @@ child
                    /\ nchild' = nchild + 1
                    /\ cwd' = cwd
                    /\ IF sc.sync
                       THEN /\ children' = <<r.res.val.id>>
                            /\ pc' = "single_wait"
                            /\ procs' = procs
                       ELSE /\ procs' = ManagerAdd(procs, r.res.val.id)
                            /\ pc' = "run"
                            /\ children' = children
               ELSE /\ cwd' = IF r.res.val.kind = "cd" THEN r.res.val.dir ELSE cwd
                    /\ pc' = "run"
                    /\ UNCHANGED <<child, nchild, children, procs>>

\* single_command returned r from its part before the wait, or panicked;
\* report: the write of shrunx's error line succeeds
SingleCommandDo(sc, r, report) ==
    /\ ip' = ip + 1
    /\ log' = log \o r.ev
    /\ held' = held \cup r.held
    /\ IF Panicked(r.res)
       THEN /\ pc' = "panic_run" /\ loc' = Tail(loc)
            /\ UNCHANGED <<err, cwd, child, nchild, children, procs>>
       ELSE IF ~r.res.ok
       THEN /\ pc' = AfterError(report) /\ err' = Some(r.res.err) /\ loc' = <<>>
            /\ UNCHANGED <<cwd, child, nchild, children, procs>>
       ELSE /\ err' = err
            /\ loc' = Tail(loc)
            /\ IF r.res.val.kind = "spawn"
               THEN /\ child' = (r.res.val.id :> r.res.val.rec) @@ child
                    /\ nchild' = nchild + 1
                    /\ cwd' = cwd
                    /\ IF sc.sync
                       THEN /\ children' = <<r.res.val.id>>
                            /\ pc' = "single_wait"
                            /\ procs' = procs
                       ELSE /\ procs' = ManagerAdd(procs, r.res.val.id)
                            /\ pc' = "run"
                            /\ children' = children
               ELSE /\ cwd' = IF r.res.val.kind = "cd" THEN r.res.val.dir ELSE cwd
                    /\ pc' = "run"
                    /\ UNCHANGED <<child, nchild, children, procs>>

\* Interpreter::run pops a SingleCommand; single_command runs up to its wait
SingleCommand ==
    /\ pc = "run"
    /\ loc # <<>>
    /\ Head(loc).type = "SingleCommand"
    /\ \E o \in SingleOutcomes, report \in BOOLEAN :
        /\ SingleCommandDo(Head(loc), single_command(Head(loc), X(ip + 1), o), report)
        /\ files' = Opened(files, single_command(Head(loc), X(ip + 1), o).ev)
    /\ UNCHANGED <<wrote, text, tree2,
                   mode, stage, verbose, nread, cmd, tokens, tree, plan, cur, rxall,
                   npipe>>

\* Interpreter::single_command: chld.wait() returns
SingleWait ==
    /\ pc = "single_wait"
    /\ child[children[1]].status = "exited"
    /\ child' = [child EXCEPT ![children[1]].status = "waited"]
    /\ log' = Append(log, Ev("wait", children[1], ip))
    /\ children' = <<>>
    /\ pc' = "run"
    /\ UNCHANGED <<wrote, files, text, tree2,
                   mode, stage, verbose, nread, cmd, tokens, tree, plan, loc, ip,
                   cur, rxall, held, procs, nchild, npipe, cwd, err>>

\* The children after kill_children's loop sent them a kill: killed are those
\* the signal reached
Killed(ch, q, killed) ==
    [c \in DOMAIN ch |->
        IF c \in Range(q) THEN [ch[c] EXCEPT !.status = kill(@, c \in killed)]
        ELSE ch[c]]

\* the sets of children the kills of kill_children may reach, r being what
\* the filter or the sink returned: kill_children runs only after an Err
KillOutcomes(r) ==
    IF r.res.ok \/ Panicked(r.res) THEN {{}} ELSE SUBSET Range(children)

\* pipelined_commands never got a result from the command it called: the
\* command panicked after the calls ev, the children spawned so far are
\* neither killed nor waited for
PanicInPipeline(ev) ==
    /\ log' = log \o ev
    /\ pc' = "panic_run"
    /\ UNCHANGED <<child, nchild, children, cur, err, procs>>

\* pipelined_commands returning the Err r without kill_children
KillChildrenDo_returns(r, killed) ==
    /\ child' = child
    /\ log' = log \o r.ev
    /\ pc' = AfterLine
    /\ err' = Some(r.res.err)
    /\ UNCHANGED <<nchild, children, cur, procs>>

\* pipelined_commands got the Err r from a filter or from the sink:
\* kill_children sends its kills, then waits
KillChildrenDo(r, killed) ==
    /\ child' = Killed(child, children, killed)
    /\ log' = log \o r.ev \o KillEvents(children, ip)
    /\ pc' = "wait"
    /\ err' = Some(r.res.err)
    /\ UNCHANGED <<nchild, children, cur, procs>>

\* pipelined_commands after source_command returned r or panicked
SourceCommandDo(p, r, report) ==
    /\ ip' = ip + 1
    /\ log' = log \o r.ev
    /\ held' = held \cup r.held
    /\ npipe' = npipe + Count(r.ev, "pipe")
    /\ IF r.res.ok
       THEN /\ child' = (r.res.val.child.id :> r.res.val.child.rec) @@ child
            /\ nchild' = nchild + 1
            /\ children' = <<r.res.val.child.id>>
            /\ rxall' = <<r.res.val.rx>>
            /\ cur' = Some(p)
            /\ loc' = Tail(loc)
            /\ pc' = "filters"
            /\ err' = err
       ELSE IF Panicked(r.res)
       THEN /\ pc' = "panic_run"
            /\ loc' = Tail(loc)
            /\ UNCHANGED <<err, child, nchild, children, rxall, cur>>
       ELSE /\ pc' = AfterError(report)
            /\ err' = Some(r.res.err)
            /\ loc' = <<>>
            /\ UNCHANGED <<child, nchild, children, rxall, cur>>

\* Interpreter::run pops a PipelinedCommands; pipelined_commands starts the
\* source
SourceCommand ==
    /\ pc = "run"
    /\ loc # <<>>
    /\ Head(loc).type = "PipelinedCommands"
    /\ \E o \in SourceOutcomes, report \in BOOLEAN :
        SourceCommandDo(Head(loc), source_command(Head(loc).source, X(ip + 1), o),
                        report)
    /\ UNCHANGED <<wrote, files, text, tree2,
                   mode, stage, verbose, nread, cmd, tokens, tree, plan, procs, cwd>>

\* VecDeque::pop_back: the element taken and the deque left
pop_back(q) == [val |-> q[Len(q)], rest |-> SubSeq(q, 1, Len(q) - 1)]

\* pipelined_commands after filter_command, given the reader rx, returned r
\* or panicked
FilterCommandDo(rx, r, killed) ==
    /\ held' = (held \ {rx}) \cup r.held
    /\ npipe' = npipe + Count(r.ev, "pipe")
    /\ IF r.res.ok
       THEN /\ child' = (r.res.val.child.id :> r.res.val.child.rec) @@ child
            /\ nchild' = nchild + 1
            /\ children' = Append(children, r.res.val.child.id)
            /\ rxall' = Append(pop_back(rxall).rest, r.res.val.rx)
            /\ cur' = Some([cur[1] EXCEPT !.filters = Tail(@)])
            /\ log' = log \o r.ev
            /\ pc' = "filters"
            /\ UNCHANGED <<err, procs>>
       ELSE IF Panicked(r.res)
       THEN /\ rxall' = pop_back(rxall).rest
            /\ PanicInPipeline(r.ev)
       ELSE /\ rxall' = pop_back(rxall).rest
            /\ KillChildrenDo(r, killed)

\* pipelined_commands: the next filter is started; if that fails,
\* kill_children sends its kills and begins to wait
FilterCommand ==
    /\ pc = "filters"
    /\ cur[1].filters # <<>>
    /\ \E o \in FilterOutcomes :
       \E killed \in KillOutcomes(filter_command(Head(cur[1].filters),
                                                 pop_back(rxall).val, X(ip), o)) :
        FilterCommandDo(pop_back(rxall).val,
                        filter_command(Head(cur[1].filters), pop_back(rxall).val,
                                       X(ip), o),
                        killed)
    /\ UNCHANGED <<wrote, files, text, tree2,
                   mode, stage, verbose, nread, cmd, tokens, tree, plan, loc, ip, cwd>>

\* pipelined_commands after sink_command, given the reader rx, returned r
\* or panicked
SinkCommandDo(rx, r, killed) ==
    /\ held' = (held \ {rx}) \cup r.held
    /\ rxall' = pop_back(rxall).rest
    /\ IF r.res.ok
       THEN /\ child' = (r.res.val.child.id :> r.res.val.child.rec) @@ child
            /\ nchild' = nchild + 1
            /\ log' = log \o r.ev
            /\ err' = err
            /\ IF cur[1].sync
               THEN /\ children' = Append(children, r.res.val.child.id)
                    /\ pc' = "wait"
                    /\ UNCHANGED <<procs, cur>>
               ELSE /\ procs' = ManagerAddq(procs, Append(children, r.res.val.child.id))
                    /\ children' = <<>>
                    /\ cur' = None
                    /\ pc' = "run"
       ELSE IF Panicked(r.res)
       THEN PanicInPipeline(r.ev)
       ELSE KillChildrenDo(r, killed)

\* pipelined_commands: the sink is started; then the children are waited for
\* (sync) or handed to the manager; if the sink fails, kill_children sends its
\* kills and begins to wait
SinkCommand ==
    /\ pc = "filters"
    /\ cur[1].filters = <<>>
    /\ \E o \in SinkOutcomes :
       \E killed \in KillOutcomes(sink_command(cur[1].sink, pop_back(rxall).val,
                                               X(ip), o)) :
        /\ SinkCommandDo(pop_back(rxall).val,
                         sink_command(cur[1].sink, pop_back(rxall).val, X(ip), o),
                         killed)
        /\ files' = Opened(files, sink_command(cur[1].sink, pop_back(rxall).val,
                                               X(ip), o).ev)
    /\ UNCHANGED <<wrote, text, tree2,
                   mode, stage, verbose, nread, cmd, tokens, tree, plan, loc, ip,
                   npipe, cwd>>

\* wait_for_children after the wait for the child w.c returned, w.rest being
\* the deque left; after the last one pipelined_commands returns and the
\* scope of the group ends; report: the write of shrunx's error line succeeds
WaitForChildrenDo(w, report) ==
    /\ child[w.c].status = "exited"
    /\ child' = [child EXCEPT ![w.c].status = "waited"]
    /\ log' = Append(log, Ev("wait", w.c, ip))
    /\ IF Len(w.rest) > 0
       THEN /\ children' = w.rest
            /\ UNCHANGED <<pc, cur, loc, procs>>
       ELSE /\ children' = <<>>
            /\ procs' = ExecutorDrop(procs, w.rest)
            /\ cur' = None
            /\ pc' = IF err = None THEN "run" ELSE AfterError(report)
            /\ loc' = IF err = None THEN loc ELSE <<>>

\* wait_for_children: the wait for the child at the back of the deque returns
WaitForChildren ==
    /\ pc = "wait"
    /\ children # <<>>
    /\ \E report \in BOOLEAN : WaitForChildrenDo(wait_pop(children), report)
    /\ UNCHANGED <<wrote, files, text, tree2,
                   mode, stage, verbose, nread, cmd, tokens, tree, plan, ip, rxall,
                   held, nchild, npipe, cwd, err>>

\* A child process whose standard output is a file writes its output
ChildWrite ==
    /\ \E c \in DOMAIN child :
        /\ child[c].status = "running"
        /\ c \notin wrote
        /\ child[c].stdout # None
        /\ child[c].stdout[1][1] \in {"out", "app"}
        /\ files' = [files EXCEPT ![child[c].stdout[1][2]] =
                         Written(@, child[c].stdout[1][1], Output)]
        /\ wrote' = wrote \cup {c}
    /\ UNCHANGED <<text, tree2, mode, stage, verbose, pc, nread, cmd, tokens, tree,
                   plan, loc, ip, cur, children, rxall, held, procs, child, nchild,
                   npipe, cwd, err, log>>

\* A child process terminates
ChildExit ==
    /\ \E c \in DOMAIN child :
        /\ child[c].status = "running"
        /\ child' = [child EXCEPT ![c].status = "exited"]
    /\ UNCHANGED <<wrote, files, text, tree2,
                   mode, stage, verbose, pc, nread, cmd, tokens, tree, plan, loc, ip,
                   cur, children, rxall, held, procs, nchild, npipe, cwd, err, log>>

Next ==
    \/ GetCmd
    \/ GetCmdEOF
    \/ GetCmdPanic
    \/ Shrun
    \/ RunDone
    \/ SingleCommand
    \/ SingleWait
    \/ SourceCommand
    \/ FilterCommand
    \/ SinkCommand
    \/ WaitForChildren
    \/ ChildWrite
    \/ ChildExit

Spec == Init /\ [][Next]_vars

(***************************************************************************)
(* Vocabulary of the properties.                                           *)
(***************************************************************************)
\* the e-th command of the plan of the current line
P(e) == plan[1].pipelines[e]

\* the number of commands of a command of the plan
NCmds(p) == IF p.type = "SingleCommand" THEN 1 ELSE 2 + Len(p.filters)

\* a command of the plan is being executed (it has been popped and has not
\* returned)
InProgress == pc \in {"single_wait", "filters", "wait"}

\* the e-th command of the plan has returned (a command that panicked
\* never returns)
Returned(e) == e < ip \/ (e = ip /\ ~InProgress /\ pc # "panic_run")

\* the children spawned for the e-th command of the plan of the current line
ChildrenOf(e) == {c \in DOMAIN child : c[1] = nread /\ child[c].entry = e}

\* every command of the e-th command of the plan has been spawned
FullySpawned(e) == Cardinality(ChildrenOf(e)) = NCmds(P(e))

\* a child the shell has neither waited for nor given up
Live(c) == child[c].status \in {"running", "exited"}

\* the calls named op made for the e-th command of the plan, in order
CallsOf(op, e) == SelectSeq(log, LAMBDA ev : ev.op = op /\ ev.entry = e)

\* the number of times c occurs in the deque q
Occurrences(q, c) == Cardinality({i \in DOMAIN q : q[i] = c})

\* child c was spawned before child d
Before(c, d) == c[1] < d[1] \/ (c[1] = d[1] /\ c[2] < d[2])

(***************************************************************************)
(* C1: when the interpreter returns from a sync=true pipeline whose        *)
(* commands were all spawned, every child spawned for it has been waited   *)
(* on, the pipeline's deque of children is empty and none of its children  *)
(* is held by the reaper.                                                  *)
(***************************************************************************)
C1_SyncPipelineWaited ==
    \A e \in 1..ip :
        (Returned(e) /\ P(e).type = "PipelinedCommands" /\ P(e).sync
            /\ FullySpawned(e))
        => /\ \A c \in ChildrenOf(e) :
                /\ child[c].status = "waited"
                /\ c \notin Range(procs)
                /\ c \notin Range(children)
           /\ (e = ip => children = <<>>)

\* a sync pipeline of at least three commands has returned, all spawned
C1_Witness ==
    /\ pc = "run" /\ ip >= 1
    /\ P(ip).type = "PipelinedCommands" /\ P(ip).sync
    /\ NCmds(P(ip)) >= 3 /\ FullySpawned(ip)

(***************************************************************************)
(* C2: when a filter or the sink of a pipeline fails to start, every child *)
(* already spawned for the pipeline is sent exactly one kill, all the      *)
(* kills come before the first wait, and once the error is returned every  *)
(* such child has been waited on and none is held by the group or by the   *)
(* reaper (whether or not the kills succeeded).                            *)
(***************************************************************************)
\* the e-th command is a pipeline that failed after its source was spawned
FailedPipeline(e) ==
    /\ P(e).type = "PipelinedCommands"
    /\ \/ e = ip /\ pc = "wait" /\ err # None
       \/ Returned(e) /\ ChildrenOf(e) # {} /\ ~FullySpawned(e)

C2_KillThenWaitOnFailure ==
    \A e \in 1..ip :
        FailedPipeline(e)
        => /\ \A c \in ChildrenOf(e) :
                Cardinality({i \in DOMAIN log : log[i] = Ev("kill", c, e)}) = 1
           /\ \A i, j \in DOMAIN log :
                (log[i].op = "kill" /\ log[i].entry = e
                    /\ log[j].op = "wait" /\ log[j].entry = e) => i < j
           /\ Returned(e) =>
                /\ err # None
                /\ \A c \in ChildrenOf(e) :
                    /\ child[c].status = "waited"
                    /\ c \notin Range(procs)
                    /\ c \notin Range(children)

\* a pipeline failed after two of its children were spawned, and returned
C2_Witness ==
    /\ ip >= 1 /\ plan # None /\ Returned(ip)
    /\ FailedPipeline(ip)
    /\ Cardinality(ChildrenOf(ip)) >= 2
    /\ Len(CallsOf("wait", ip)) >= 2

(***************************************************************************)
(* C3: a child that has not been waited on is held exactly once, by the    *)
(* group or by the reaper; the reaper holds its children in spawn order;   *)
(* and once a sync=false command has returned with all its children        *)
(* spawned, the reaper holds each of them (exactly once, in spawn order).  *)
(***************************************************************************)
C3_OneOwner ==
    /\ \A c \in DOMAIN child :
        Live(c) => Occurrences(children, c) + Occurrences(procs, c) = 1
    /\ \A i, j \in DOMAIN procs : i < j => Before(procs[i], procs[j])
    /\ \A e \in 1..ip :
        (Returned(e) /\ ~P(e).sync /\ FullySpawned(e))
        => \A c \in ChildrenOf(e) : Occurrences(procs, c) = 1

\* a sync=false pipeline has handed its children to a reaper that already
\* held a child of an earlier line
C3_Witness ==
    /\ pc = "run" /\ ip >= 1
    /\ P(ip).type = "PipelinedCommands" /\ ~P(ip).sync /\ FullySpawned(ip)
    /\ Len(procs) > Cardinality(ChildrenOf(ip))
    /\ procs[1][1] < nread

(***************************************************************************)
(* C4: the blocking waits on the children of a pipeline are made in        *)
(* reverse spawn order: the k-th wait is for the k-th child from the sink, *)
(* also when the waits follow the kills of kill_children.                  *)
(***************************************************************************)
C4_WaitSinkFirst ==
    \A e \in 1..ip :
        \A k \in DOMAIN CallsOf("wait", e) :
            child[CallsOf("wait", e)[k].arg].pos = Cardinality(ChildrenOf(e)) - k + 1

\* the four children of a pipeline have all been waited on
C4_Witness ==
    /\ ip >= 1 /\ plan # None
    /\ Len(CallsOf("wait", ip)) = 4

(***************************************************************************)
(* C5: the commands of the plan are started in the order of the pipelines  *)
(* of the input line (the calls made for them never go back to an earlier  *)
(* command, and the child at position i of the e-th command runs the i-th  *)
(* command of the e-th pipeline of the line); and while a child of a       *)
(* sync=true command has not been waited on, no child of a later command   *)
(* exists.                                                                 *)
(***************************************************************************)
\* child c runs the command the parser found at its place in the line
RunsItsCommand(c) ==
    /\ child[c].entry \in DOMAIN tree[1].pipelines
    /\ child[c].pos \in DOMAIN tree[1].pipelines[child[c].entry].commands
    /\ tree[1].pipelines[child[c].entry].commands[child[c].pos].type = "SimpleCommand"
        => child[c].argv
            = tree[1].pipelines[child[c].entry].commands[child[c].pos].arguments

C5_CommandsInLineOrder ==
    /\ \A i, j \in DOMAIN log : i < j => log[i].entry <= log[j].entry
    /\ \A c \in DOMAIN child : c[1] = nread => RunsItsCommand(c)
    /\ \A c, d \in DOMAIN child :
        (c[1] = nread /\ d[1] = nread /\ child[c].entry < child[d].entry
            /\ P(child[c].entry).sync)
        => child[c].status = "waited"

\* a child of a pipeline exists that follows a sync=true command with a child
C5_Witness ==
    \E c, d \in DOMAIN child :
        /\ c[1] = nread /\ d[1] = nread
        /\ child[c].entry < child[d].entry
        /\ P(child[c].entry).sync
        /\ P(child[d].entry).type = "PipelinedCommands"

(***************************************************************************)
(* C6, as stated: no blocking wait is ever made on a child of a sync=false *)
(* command.                                                                *)
(***************************************************************************)
C6_NoWaitWhenAsync ==
    \A e \in 1..ip : ~P(e).sync => CallsOf("wait", e) = <<>>

(***************************************************************************)
(* C6, amended: for a sync=false command whose commands were all spawned,  *)
(* no kill and no blocking wait is made on its children, and once it has   *)
(* returned the reaper holds every one of them.                            *)
(***************************************************************************)
C6_NoWaitWhenAsyncSpawned ==
    \A e \in 1..ip :
        (~P(e).sync /\ FullySpawned(e))
        => /\ CallsOf("wait", e) = <<>>
           /\ CallsOf("kill", e) = <<>>
           /\ Returned(e) => \A c \in ChildrenOf(e) : c \in Range(procs)

\* a child of a later command exists while a child of a sync=false command,
\* held by the reaper, is still running
C6_Witness ==
    \E c, d \in DOMAIN child :
        /\ c[1] = nread /\ d[1] = nread
        /\ child[c].entry < child[d].entry
        /\ ~P(child[c].entry).sync
        /\ child[c].status = "running"
        /\ c \in Range(procs)

(***************************************************************************)
(* C7: a pipeline of N >= 2 commands that was spawned in full made exactly *)
(* N - 1 pipes and N children, spawned in the order source, filters left   *)
(* to right, sink; the standard output of the i-th child is the write end  *)
(* of the i-th pipe and the standard input of the (i+1)-th child its read  *)
(* end; the source's standard input and the sink's standard output are the *)
(* redirection's file, or inherited.                                       *)
(***************************************************************************)
\* the arguments of the i-th command of the pipeline p of the plan
CmdArgs(p, i) ==
    IF i = 1 THEN p.source.arguments
    ELSE IF i = NCmds(p) THEN p.sink.arguments
    ELSE p.filters[i - 1].arguments

\* the child of the i-th spawn made for the e-th command of the plan
Spawned(e, i) == child[CallsOf("spawn", e)[i].arg]

C7_PipelineWiring ==
    \A e \in 1..ip :
        (P(e).type = "PipelinedCommands" /\ FullySpawned(e))
        => /\ Len(CallsOf("pipe", e)) = NCmds(P(e)) - 1
           /\ Len(CallsOf("spawn", e)) = NCmds(P(e))
           /\ \A i \in 1..NCmds(P(e)) :
                /\ Spawned(e, i).pos = i
                /\ Spawned(e, i).argv = CmdArgs(P(e), i)
           /\ \A i \in 1..(NCmds(P(e)) - 1) :
                /\ Spawned(e, i).stdout = Some(<<"w", CallsOf("pipe", e)[i].arg>>)
                /\ Spawned(e, i + 1).stdin = Some(<<"r", CallsOf("pipe", e)[i].arg>>)
           /\ Spawned(e, 1).stdin
                = IF P(e).source.input = None THEN None
                  ELSE Some(<<"in", P(e).source.input[1].filename>>)
           /\ Spawned(e, NCmds(P(e))).stdout
                = IF P(e).sink.output = None THEN None
                  ELSE Some(<<IF P(e).sink.output[1].overwrite THEN "out" ELSE "app",
                              P(e).sink.output[1].filename>>)

\* a pipeline of four commands has been spawned in full
C7_Witness ==
    /\ ip >= 1 /\ plan # None
    /\ P(ip).type = "PipelinedCommands"
    /\ NCmds(P(ip)) = 4 /\ FullySpawned(ip)

(***************************************************************************)
(* C8: between the commands of a pipeline being built the shell holds at   *)
(* most the read end of the pipe created last; after the last child of a   *)
(* command has been spawned, and after every error return, it holds no     *)
(* pipe end and no redirection file.                                       *)
(***************************************************************************)
C8_NoDescriptorKept ==
    /\ pc = "filters" => held \subseteq {<<"r", <<nread, npipe>>>>}
    /\ pc # "filters" => held = {}

\* the second filter of a pipeline is about to be started: the shell holds
\* the read end of the second pipe
C8_Witness ==
    /\ pc = "filters" /\ npipe = 2
    /\ held = {<<"r", <<nread, 2>>>>}
    /\ cur[1].filters # <<>>

(***************************************************************************)
(* C9: for every input line the reaper is polled exactly once, and that is *)
(* the first thing done for the line: before the scan and before any       *)
(* spawn, also when the line then fails to parse or to translate.          *)
(***************************************************************************)
C9_ReapOncePerLine ==
    /\ pc = "shrun" => log = <<>>
    /\ (nread > 0 /\ pc # "shrun")
        => /\ log # <<>>
           /\ log[1].op = "reap"
           /\ Count(log, "reap") = 1
           /\ Count(log, "scan") = 1

\* a line failed to parse after the reaper, which held children, was polled
C9_Witness ==
    /\ nread > 0 /\ pc # "shrun"
    /\ tokens # None /\ tree = None /\ err # None
    /\ Count(log, "try_wait") >= 1

(***************************************************************************)
(* C10: a poll of the reaper calls try_wait once on each child it holds,   *)
(* in order; afterwards it holds exactly the children whose check said     *)
(* "still running", in their previous relative order: the exited ones and  *)
(* those whose check failed are dropped, and no child is added.            *)
(***************************************************************************)
\* the children of q that are running according to ch, in the order of q
RECURSIVE StillRunning(_, _)
StillRunning(q, ch) ==
    IF q = <<>> THEN <<>>
    ELSE (IF ch[Head(q)].status = "running" THEN <<Head(q)>> ELSE <<>>)
         \o StillRunning(Tail(q), ch)

\* the calls of try_wait among the calls ev, in order
RECURSIVE TryWaits(_)
TryWaits(ev) ==
    IF ev = <<>> THEN <<>>
    ELSE (IF Head(ev).op = "try_wait" THEN <<Head(ev)>> ELSE <<>>)
         \o TryWaits(Tail(ev))

\* the poll of the reaper made for a line, as a step
C10_Poll ==
    (pc = "shrun" /\ pc' # "shrun")
    => /\ procs' = StillRunning(procs, child')
       /\ \A c \in Range(procs) \ Range(procs') :
            child'[c].status \in {"waited", "error"}
       /\ Range(procs') \subseteq Range(procs)
       /\ TryWaits(log') = [i \in DOMAIN procs |-> Ev("try_wait", procs[i], 0)]

C10_ReapKeepsRunning == [][C10_Poll]_vars

\* the reaper held three children when polled: it kept one, dropped one that
\* had exited and one whose check failed
C10_Witness ==
    /\ nread > 1 /\ pc # "shrun"
    /\ Count(log, "try_wait") = 3
    /\ \E c, d, f \in DOMAIN child :
        /\ c[1] < nread /\ d[1] < nread /\ f[1] < nread
        /\ c \in Range(procs) /\ child[c].status = "running"
        /\ child[d].status = "waited"
        /\ child[f].status = "error"

(***************************************************************************)
(* The front end alone: scan, parse, translate, serialize and the parse of *)
(* the serialized text, applied to every short text and to chosen longer   *)
(* ones.                                                                   *)
(***************************************************************************)
\* the length of the texts that are all enumerated
MaxText == 4

\* the characters of the texts: a word character, the blank and every
\* character the scanner treats specially
Chars == {"a", " ", "|", ";", "&", "<", ">", "(", ")"}

\* every text of at most MaxText characters
Texts == UNION {[1..n -> Chars] : n \in 0..MaxText}

\* longer texts: redirections at each position of a pipeline, several
\* redirections on one command, subshells, runs of `>`, tabs
LongTexts == {
    <<"a", ">", "f", ">", "g">>,
    <<"a", ">", ">", "f", "<", "g">>,
    <<"a", " ", "b", "<", "f", ">", ">", "g">>,
    <<"a", ">", "f", "|", "b">>,
    <<"a", "<", "f", "<", "g", "|", "b">>,
    <<"a", "|", "b", ">", "f", ">", "g">>,
    <<"a", "|", "b", "<", "f", "|", "c">>,
    <<"a", "|", "b", ">", "f", "|", "c">>,
    <<"a", "<", "f", "|", "b", "|", "c", ">", "g">>,
    <<"a", "&", "b", "|", "c", "&">>,
    <<"a", ";", "b", "&", "c", ";">>,
    <<"(", "a", ")", "<", "f", ">", "g">>,
    <<"(", "a", ")", "<", "f", "<", "g">>,
    <<"(", "a", ")", "<", "f", "|", "b">>,
    <<"(", "a", ")", ">", "f", "|", "b">>,
    <<"a", "|", "(", "b", ")", ">", "f">>,
    <<"a", "|", "(", "b", ")", "<", "f">>,
    <<"a", "|", "(", "b", ")", "|", "c">>,
    <<"a", "|", "(", "b", ")", ">", "f", "|", "c">>,
    <<"(", "a", ";", "b", "&", ")">>,
    <<"(", "a", "&", "b", ")", "|", "c", "&">>,
    <<"(", "(", "a", ")", ")">>,
    <<"(", "a", "<", "f", "<", "g", ")">>,
    <<"(", "a", "|", "b", ">", "f", ">", ">", "g", ")", "|", "c">>,
    <<"(", "a", "|", "b", ">", "f", ")", ">", ">", "g">>,
    <<"a", "\t", "b", ">", ">", ">", ">", ">", "f">>,
    <<"a", "b", ">", ">", ">", "f", " ", ">", ">">>
}

\* the command lines given to the front end
FrontInputs == Texts \cup Lines \cup LongTexts

\* a shell that has been given a command line
FrontInit ==
    /\ cmd \in FrontInputs
    /\ verbose \in BOOLEAN
    /\ mode = "c"
    /\ stage = ""
    /\ pc = "front_scan"
    /\ nread = 1
    /\ tokens = None
    /\ tree = None
    /\ plan = None
    /\ loc = <<>>
    /\ ip = 0
    /\ cur = None
    /\ children = <<>>
    /\ rxall = <<>>
    /\ held = {}
    /\ procs = <<>>
    /\ child = <<>>
    /\ nchild = 0
    /\ npipe = 0
    /\ cwd = <<"/">>
    /\ err = None
    /\ log = <<>>
    /\ files = (<<"f">> :> <<"i">>)
    /\ wrote = {}
    /\ text = None
    /\ tree2 = None

\* lexer::scan applied to the line
FrontScan ==
    /\ pc = "front_scan"
    /\ tokens' = Some(scan(cmd))
    /\ pc' = "front_parse"
    /\ UNCHANGED <<mode, stage, verbose, nread, cmd, tree, plan, loc, ip, cur,
                   children, rxall, held, procs, child, nchild, npipe, cwd,
                   err, log, files, wrote, text, tree2>>

\* parser::parse applied to the tokens
FrontParse ==
    /\ pc = "front_parse"
    /\ IF parse(tokens[1]).ok
       THEN /\ tree' = Some(parse(tokens[1]).val)
            /\ err' = None
            /\ pc' = "front_translate"
       ELSE /\ tree' = None
            /\ err' = Some(parse(tokens[1]).err)
            /\ pc' = "front_done"
    /\ UNCHANGED <<mode, stage, verbose, nread, cmd, tokens, plan, loc, ip, cur,
                   children, rxall, held, procs, child, nchild, npipe, cwd,
                   log, files, wrote, text, tree2>>

\* translator::translate applied to the tree
FrontTranslate ==
    /\ pc = "front_translate"
    /\ \E exe \in {ROk(ExePath), RErr("current_exe")} :
        IF translate(tree[1], verbose, exe).ok
        THEN /\ plan' = Some(translate(tree[1], verbose, exe).val)
             /\ err' = None
        ELSE /\ plan' = None
             /\ err' = Some(translate(tree[1], verbose, exe).err)
    /\ pc' = "front_serialize"
    /\ UNCHANGED <<mode, stage, verbose, nread, cmd, tokens, tree, loc, ip, cur,
                   children, rxall, held, procs, child, nchild, npipe, cwd,
                   log, files, wrote, text, tree2>>

\* serializer::serialize applied to the tree
FrontSerialize ==
    /\ pc = "front_serialize"
    /\ IF serialize(tree[1]).ok
       THEN /\ text' = Some(serialize(tree[1]).val)
            /\ pc' = "front_reparse"
       ELSE /\ text' = None
            /\ pc' = "front_done"
    /\ UNCHANGED <<mode, stage, verbose, nread, cmd, tokens, tree, plan, loc, ip,
                   cur, children, rxall, held, procs, child, nchild, npipe, cwd,
                   err, log, files, wrote, tree2>>

\* the serialized text scanned and parsed, as the subshell given it does
FrontReparse ==
    /\ pc = "front_reparse"
    /\ tree2' = IF parse(scan(text[1])).ok
                THEN Some(parse(scan(text[1])).val) ELSE None
    /\ pc' = "front_done"
    /\ UNCHANGED <<mode, stage, verbose, nread, cmd, tokens, tree, plan, loc, ip,
                   cur, children, rxall, held, procs, child, nchild, npipe, cwd,
                   err, log, files, wrote, text>>

FrontNext ==
    \/ FrontScan
    \/ FrontParse
    \/ FrontTranslate
    \/ FrontSerialize
    \/ FrontReparse

FrontSpec == FrontInit /\ [][FrontNext]_vars

(***************************************************************************)
(* C18: scan returns for every text; the last token of what it returns is  *)
(* EndOfLine, no other token is EndOfLine, and no CommandOrArgument token  *)
(* has an empty text.                                                      *)
(***************************************************************************)
C18_ScanOutput ==
    /\ pc # "front_scan" => tokens # None
    /\ tokens # None =>
        /\ Len(tokens[1]) >= 1
        /\ tokens[1][Len(tokens[1])].kind = "EndOfLine"
        /\ \A i \in 1..(Len(tokens[1]) - 1) : tokens[1][i].kind # "EndOfLine"
        /\ \A i \in DOMAIN tokens[1] :
            tokens[1][i].kind = "CommandOrArgument" => tokens[1][i].value # <<>>

\* scanned: a text with a word, a blank and a final `>`
C18_Witness ==
    /\ tokens # None
    /\ cmd # <<>>
    /\ cmd[Len(cmd)] = ">"
    /\ \E i \in DOMAIN cmd : cmd[i] = " "
    /\ \E i \in DOMAIN tokens[1] : tokens[1][i].kind = "CommandOrArgument"

(***************************************************************************)
(* C19: a maximal run of k `>` characters is scanned as k div 2 MajorMajor *)
(* tokens followed by one Major token when k is odd; the tokens before     *)
(* them, a word pending before the run included, are those of the text     *)
(* before the run, the tokens after them those of the text after the run.  *)
(***************************************************************************)
\* the characters i .. i+k-1 of t are a maximal run of `>`
MaximalRun(t, i, k) ==
    /\ i + k - 1 <= Len(t)
    /\ \A j \in i..(i + k - 1) : t[j] = ">"
    /\ i = 1 \/ t[i - 1] # ">"
    /\ i + k - 1 = Len(t) \/ t[i + k] # ">"

\* the tokens of a run of k `>`
GtTokens(k) ==
    [j \in 1..(k \div 2) |-> Token("MajorMajor", <<>>)]
    \o (IF k % 2 = 1 THEN <<Token("Major", <<>>)>> ELSE <<>>)

\* the tokens of a text without the final EndOfLine
BeforeEndOfLine(t) == SubSeq(scan(t), 1, Len(scan(t)) - 1)

C19_RunsOfGreaterThan ==
    tokens # None =>
        \A i \in DOMAIN cmd, k \in DOMAIN cmd :
            MaximalRun(cmd, i, k) =>
                tokens[1] = BeforeEndOfLine(SubSeq(cmd, 1, i - 1))
                            \o GtTokens(k)
                            \o scan(SubSeq(cmd, i + k, Len(cmd)))

\* scanned: a word immediately followed by a run of an odd number (three or
\* more) of `>`
C19_Witness ==
    /\ tokens # None
    /\ \E i \in DOMAIN cmd, k \in {3, 5} :
        /\ i > 1 /\ cmd[i - 1] = "a"
        /\ MaximalRun(cmd, i, k)
        /\ \E n \in DOMAIN tokens[1] :
            /\ tokens[1][n].kind = "CommandOrArgument"
            /\ n + (k \div 2) + 1 <= Len(tokens[1])
            /\ tokens[1][n + 1].kind = "MajorMajor"
            /\ tokens[1][n + (k \div 2) + 1].kind = "Major"

(***************************************************************************)
(* Vocabulary of the properties of the front end.                          *)
(***************************************************************************)
\* the simple commands of a CompleteCommand, those inside subshells included
RECURSIVE SimpleCommandsOf(_)
SimpleCommandsOf(cc) ==
    UNION {UNION {IF p.commands[i].type = "SimpleCommand"
                  THEN {p.commands[i]}
                  ELSE SimpleCommandsOf(p.commands[i].complete_command) :
                  i \in DOMAIN p.commands} :
           p \in Range(cc.pipelines)}

\* the translator has been applied to the tree
Translated == tree # None /\ pc # "front_translate"

\* the i-th command of the e-th pipeline of the tree
TreeCmd(e, i) == tree[1].pipelines[e].commands[i]

\* the i-th command of the command p of the plan
PlanCmd(p, i) ==
    IF p.type = "SingleCommand"
    THEN [arguments |-> p.arguments, input |-> p.input, output |-> p.output]
    ELSE IF i = 1
    THEN [arguments |-> p.source.arguments, input |-> p.source.input, output |-> None]
    ELSE IF i = NCmds(p)
    THEN [arguments |-> p.sink.arguments, input |-> None, output |-> p.sink.output]
    ELSE [arguments |-> p.filters[i - 1].arguments, input |-> None, output |-> None]

\* the redirections of the i-th of n commands of a pipeline break the rule
\* of its position
BreaksRule(redirs, i, n) ==
    IF n = 1 THEN Len(redirs.input) > 1 \/ Len(redirs.output) > 1
    ELSE IF i = 1 THEN Len(redirs.input) > 1 \/ Len(redirs.output) > 0
    ELSE IF i = n THEN Len(redirs.input) > 0 \/ Len(redirs.output) > 1
    ELSE Len(redirs.input) > 0 \/ Len(redirs.output) > 0

(***************************************************************************)
(* C13: every SimpleCommand of a tree returned by parse, at any depth, has *)
(* at least one word.                                                      *)
(***************************************************************************)
C13_SimpleCommandHasWord ==
    tree # None => \A sc \in SimpleCommandsOf(tree[1]) : Len(sc.arguments) >= 1

(***************************************************************************)
(* C14: when some command of the tree breaks the redirection rule of its   *)
(* position, translate returns an error and no plan; in a plan translate   *)
(* returns, every command carries exactly the redirections parsed for it.  *)
(***************************************************************************)
C14_RedirectionRules ==
    Translated =>
        /\ (\E e \in DOMAIN tree[1].pipelines :
                \E i \in DOMAIN tree[1].pipelines[e].commands :
                    BreaksRule(TreeCmd(e, i).redirs, i,
                               Len(tree[1].pipelines[e].commands)))
            => (plan = None /\ err # None)
        /\ plan # None =>
            /\ Len(plan[1].pipelines) = Len(tree[1].pipelines)
            /\ \A e \in DOMAIN tree[1].pipelines :
                /\ NCmds(P(e)) = Len(tree[1].pipelines[e].commands)
                /\ \A i \in DOMAIN tree[1].pipelines[e].commands :
                    /\ PlanCmd(P(e), i).input = TreeCmd(e, i).redirs.input
                    /\ PlanCmd(P(e), i).output = TreeCmd(e, i).redirs.output

\* translated and rejected: a pipeline of three commands whose sink has an
\* input redirection or whose filter has a redirection
C14_Witness ==
    /\ Translated
    /\ plan = None
    /\ err # None
    /\ \E e \in DOMAIN tree[1].pipelines :
        /\ Len(tree[1].pipelines[e].commands) = 3
        /\ \/ TreeCmd(e, 2).redirs # RedirectListNew
           \/ TreeCmd(e, 3).redirs.input # <<>>
        /\ TreeCmd(e, 1).redirs = RedirectListNew

(***************************************************************************)
(* C15: the sync flag of each command of the plan is the flag of its       *)
(* pipeline in the tree, and the flags of the pipelines of the tree are,   *)
(* in the order the pipelines end, those of the tokens that end them:      *)
(* false for `&`, true for `;`, `)` and the end of the line.               *)
(***************************************************************************)
\* the flags of the tokens that end a pipeline, in order
RECURSIVE TokenSyncs(_)
TokenSyncs(toks) ==
    IF toks = <<>> THEN <<>>
    ELSE (IF Head(toks).kind = "Ampersand" THEN <<FALSE>>
          ELSE IF Head(toks).kind \in {"Semicolon", "CloseBrace", "EndOfLine"}
          THEN <<TRUE>>
          ELSE <<>>) \o TokenSyncs(Tail(toks))

\* the flags of the pipelines of a tree in the order the pipelines end: a
\* pipeline inside a subshell ends before the pipeline the subshell is in
RECURSIVE PipelineSyncs(_)
RECURSIVE CommandSyncs(_)
PipelineSyncs(pipelines) ==
    IF pipelines = <<>> THEN <<>>
    ELSE CommandSyncs(Head(pipelines).commands) \o <<Head(pipelines).sync>>
         \o PipelineSyncs(Tail(pipelines))

CommandSyncs(commands) ==
    IF commands = <<>> THEN <<>>
    ELSE (IF Head(commands).type = "Subshell"
          THEN PipelineSyncs(Head(commands).complete_command.pipelines)
          ELSE <<>>) \o CommandSyncs(Tail(commands))

C15_SyncFlag ==
    /\ tree # None => PipelineSyncs(tree[1].pipelines) = TokenSyncs(tokens[1])
    /\ plan # None =>
        /\ Len(plan[1].pipelines) = Len(tree[1].pipelines)
        /\ \A e \in DOMAIN plan[1].pipelines : P(e).sync = tree[1].pipelines[e].sync

\* translated: a single command and a pipeline ended by `&` and a command
\* ended by `;` or the end of the line
C15_Witness ==
    /\ plan # None
    /\ \E e, f, g \in DOMAIN plan[1].pipelines :
        /\ P(e).type = "SingleCommand" /\ ~P(e).sync
        /\ P(f).type = "PipelinedCommands" /\ ~P(f).sync
        /\ P(g).sync
    /\ \E n \in DOMAIN tokens[1] : tokens[1][n].kind = "Ampersand"

(***************************************************************************)
(* C16: in a plan translate returns, a subshell of the tree has become a   *)
(* command whose arguments are the path of the running executable, "-x"    *)
(* exactly when the shell is verbose, "-c" and the serialized inner        *)
(* CompleteCommand, and which carries the redirections of the subshell;    *)
(* a subshell whose redirections break the rule of its position makes      *)
(* translate return no plan.                                               *)
(***************************************************************************)
C16_SubshellCommand ==
    Translated =>
        \A e \in DOMAIN tree[1].pipelines :
            \A i \in DOMAIN tree[1].pipelines[e].commands :
                TreeCmd(e, i).type = "Subshell" =>
                    /\ BreaksRule(TreeCmd(e, i).redirs, i,
                                  Len(tree[1].pipelines[e].commands))
                        => plan = None
                    /\ plan # None =>
                        /\ PlanCmd(P(e), i).arguments =
                            <<ExePath>>
                            \o (IF verbose THEN <<<<"-", "x">>>> ELSE <<>>)
                            \o <<<<"-", "c">>,
                                 serialize(TreeCmd(e, i).complete_command).val>>
                        /\ PlanCmd(P(e), i).input = TreeCmd(e, i).redirs.input
                        /\ PlanCmd(P(e), i).output = TreeCmd(e, i).redirs.output

\* translated by a verbose shell: a subshell with an output redirection as
\* the sink of a pipeline
C16_Witness ==
    /\ Translated
    /\ plan # None
    /\ verbose
    /\ \E e \in DOMAIN plan[1].pipelines :
        /\ P(e).type = "PipelinedCommands"
        /\ TreeCmd(e, NCmds(P(e))).type = "Subshell"
        /\ P(e).sink.output # None
        /\ P(e).sink.arguments[2] = <<"-", "x">>

(***************************************************************************)
(* C12: when the line has a `|` that is followed by no command (by the end *)
(* of the line, `|`, `;`, `&` or `)`), the parser returns an error and no  *)
(* tree, and no child process is spawned for the line.                     *)
(***************************************************************************)
\* a Pipe token followed by a token that starts no command
PipeWithoutCommand(toks) ==
    \E i \in DOMAIN toks :
        /\ toks[i].kind = "Pipe"
        /\ i < Len(toks)
        /\ toks[i + 1].kind \in {"EndOfLine", "Pipe", "Semicolon", "Ampersand",
                                 "CloseBrace"}

C12_PipeWithoutCommandRejected ==
    (tokens # None /\ stage # "scan" /\ PipeWithoutCommand(tokens[1]))
    => /\ tree = None
       /\ err # None
       /\ \A c \in DOMAIN child : c[1] # nread

(***************************************************************************)
(* C17: for a tree without subshells, the parse of the scan of the text    *)
(* serialize makes of it is the tree itself: the same pipelines with the   *)
(* same sync flags, the same commands, words and redirection lists.        *)
(***************************************************************************)
\* no command of the top-level pipelines is a subshell
OnlySimpleCommands(cc) ==
    \A e \in DOMAIN cc.pipelines :
        \A i \in DOMAIN cc.pipelines[e].commands :
            cc.pipelines[e].commands[i].type = "SimpleCommand"

C17_SerializeParseRoundTrip ==
    (pc = "front_done" /\ text # None /\ OnlySimpleCommands(tree[1]))
    => tree2 = tree

(***************************************************************************)
(* The reaper alone: it holds up to MaxHeld background children, running   *)
(* or exited, and is polled twice in a row; the children go on running and *)
(* may exit at any time, also between the two polls.                       *)
(***************************************************************************)
\* the number of children the reaper holds at most
MaxHeld == 4

\* a background child of an earlier line, running or exited
HeldChildren == [entry : {1}, pos : {1}, argv : {<<<<"a">>>>}, stdin : {None},
                 stdout : {None}, status : {"running", "exited"}]

ReapInit ==
    /\ \E n \in 0..MaxHeld :
        /\ procs = [k \in 1..n |-> <<0, k>>]
        /\ child \in [{<<0, k>> : k \in 1..n} -> HeldChildren]
    /\ mode = "repl"
    /\ stage = ""
    /\ verbose = FALSE
    /\ pc = "reap"
    /\ nread = 1
    /\ cmd = <<>>
    /\ tokens = None
    /\ tree = None
    /\ plan = None
    /\ loc = <<>>
    /\ ip = 0
    /\ cur = None
    /\ children = <<>>
    /\ rxall = <<>>
    /\ held = {}
    /\ nchild = 0
    /\ npipe = 0
    /\ cwd = <<"/">>
    /\ err = None
    /\ log = <<>>
    /\ files = (<<"f">> :> <<"i">>)
    /\ wrote = {}
    /\ text = None
    /\ tree2 = None

\* reap(): each child held is checked once; the check of any of them may
\* fail
ReapOnce ==
    /\ pc = "reap"
    /\ \E fail \in SUBSET DOMAIN procs :
        /\ procs' = reap(procs, TryWaitAll(child, procs, fail))
        /\ child' = Collected(child, procs, TryWaitAll(child, procs, fail))
    /\ log' = log \o <<Ev("reap", <<>>, 0)>> \o CollectEvents(procs)
    /\ pc' = "reaped"
    /\ UNCHANGED <<mode, stage, verbose, nread, cmd, tokens, tree, plan, loc, ip,
                   cur, children, rxall, held, nchild, npipe, cwd, err, files,
                   wrote, text, tree2>>

\* reap() called again right after it returned, no child having been
\* spawned: a new poll, each child still held is checked again and the check
\* of any of them may fail
ReapAgain ==
    /\ pc = "reaped"
    /\ \E fail \in SUBSET DOMAIN procs :
        /\ procs' = reap(procs, TryWaitAll(child, procs, fail))
        /\ child' = Collected(child, procs, TryWaitAll(child, procs, fail))
    /\ log' = log \o <<Ev("reap", <<>>, 0)>> \o CollectEvents(procs)
    /\ pc' = "reaped_again"
    /\ UNCHANGED <<mode, stage, verbose, nread, cmd, tokens, tree, plan, loc, ip,
                   cur, children, rxall, held, nchild, npipe, cwd, err, files,
                   wrote, text, tree2>>

ReapNext ==
    \/ ReapOnce
    \/ ReapAgain
    \/ ChildExit

ReapSpec == ReapInit /\ [][ReapNext]_vars

(***************************************************************************)
(* C11, as stated: a call of reap() that directly follows another, no      *)
(* child having been spawned in between, changes nothing: the reaper holds *)
(* the same children in the same order and every child is in the state the *)
(* first call left it in.                                                  *)
(***************************************************************************)
C11_ReapTwice ==
    [][(pc = "reaped" /\ pc' = "reaped_again")
        => (procs' = procs /\ child' = child)]_vars

(***************************************************************************)
(* C11, amended: a call of reap() that directly follows another, no child  *)
(* having been spawned in between, changes nothing when no child held has  *)
(* exited since the first call and no check of the second call fails: the  *)
(* reaper holds the same children in the same order and every child is in  *)
(* the state the first call left it in.                                    *)
(***************************************************************************)
C11_ReapTwiceNothingHappened ==
    [][(/\ pc = "reaped" /\ pc' = "reaped_again"
        /\ \A c \in Range(procs) :
            child[c].status = "running" /\ child'[c].status # "error")
        => (procs' = procs /\ child' = child)]_vars

\* polled twice: the first call dropped an exited child and a child whose
\* check failed, the second checked the two children or more still held and
\* kept them all
C11_Witness ==
    /\ pc = "reaped_again"
    /\ Len(procs) >= 2
    /\ Count(log, "try_wait") = Cardinality(DOMAIN child) + Len(procs)
    /\ \E c, d \in DOMAIN child :
        /\ child[c].status = "waited"
        /\ child[d].status = "error"
        /\ c \notin Range(procs) /\ d \notin Range(procs)

(***************************************************************************)
(* C21: the working directory of the shell changes only in a step of       *)
(* single_command on a SingleCommand `cd DIR` with exactly one argument,   *)
(* and becomes DIR; a SingleCommand whose first word is `cd` never spawns  *)
(* a child, and with no or several arguments it returns the usage error    *)
(* and calls no chdir; chdir is called for SingleCommands only, and a      *)
(* child whose first word is `cd` belongs to a pipeline.                   *)
(***************************************************************************)
C21_CdBuiltinOnly ==
    [][/\ cwd' # cwd =>
            /\ pc = "run" /\ ip' = ip + 1
            /\ Head(loc).type = "SingleCommand"
            /\ Head(loc).arguments = <<<<"c", "d">>, cwd'>>
       /\ (pc = "run" /\ ip' = ip + 1 /\ Head(loc).type = "SingleCommand"
                /\ Head(loc).arguments # <<>>
                /\ Head(loc).arguments[1] = <<"c", "d">>) =>
            /\ DOMAIN child' = DOMAIN child
            /\ nchild' = nchild
            /\ files' = files
            /\ Len(Head(loc).arguments) # 2 =>
                /\ cwd' = cwd
                /\ log' = log
                /\ err' = Some("usage: cd <directory>")
       /\ \A n \in DOMAIN log' :
            log'[n].op \in {"chdir", "chdir_failed"} =>
                plan'[1].pipelines[log'[n].entry].type = "SingleCommand"
       /\ \A c \in DOMAIN child' :
            (c[1] = nread' /\ child'[c].argv[1] = <<"c", "d">>) =>
                plan'[1].pipelines[child'[c].entry].type = "PipelinedCommands"
      ]_vars

\* the lines `cd d`, then `cd d e`: the second has returned the usage error
\* without a child, the directory being the one the first has set
C21_Witness ==
    /\ cwd = <<"d">>
    /\ nread = 2
    /\ cmd = <<"c", "d", " ", "d", " ", "e">>
    /\ err = Some("usage: cd <directory>")
    /\ child = <<>>

(***************************************************************************)
(* C22: an error of a line never ends the shell: when a line has ended     *)
(* with an error in REPL mode the shell is back at getcmd, where it can    *)
(* read the next line, and it leaves the loop only from getcmd at the end  *)
(* of the input; in -c mode it exits after its single line; whenever the   *)
(* shell has exited, with or without an error, its exit status is 0.       *)
(***************************************************************************)
\* the exit status of the shell process once main has returned or called
\* std::process::exit(0), or once a panic has ended it
ExitStatus ==
    IF pc = "exit" THEN Some(0)
    ELSE IF pc \in {"panic", "panic_run"} THEN Some(101)
    ELSE None

C22_ErrorsDoNotExit ==
    /\ [](/\ (mode = "repl" /\ err # None /\ ~InProgress /\ pc # "exit")
              => (pc = "getcmd" /\ (nread < MaxLines => ENABLED GetCmd))
          /\ (mode = "c" /\ err # None /\ ~InProgress) => pc = "exit"
          /\ pc = "exit" => ExitStatus = Some(0))
    /\ [][/\ (mode = "repl" /\ pc # "exit" /\ pc' = "exit")
              => (pc = "getcmd" /\ err' = err)
          /\ (mode = "c" /\ pc # "exit" /\ pc' = "exit") => nread = 1
          /\ (err = None /\ err' # None) => pc' \in {AfterLine, "wait"}
         ]_vars

(***************************************************************************)
(* C23: the interpreter acts for a line (a child of the line exists, a     *)
(* command of its plan has been started) only when --stage is absent or    *)
(* run and the whole line has been scanned, parsed and translated without  *)
(* error, the plan being the translation of the parse of the line; with    *)
(* --stage scan, parse or plan shrun returns after that stage: nothing is  *)
(* run, the later stages leave no artifact, and the line ends with an      *)
(* error only when that stage or an earlier one failed.                    *)
(***************************************************************************)
C23_RunOnlyAfterFrontEnd ==
    /\ ((\E c \in DOMAIN child : c[1] = nread) \/ ip > 0
            \/ (\E n \in DOMAIN log : log[n].entry > 0)) =>
        /\ stage \in {"", "run"}
        /\ parse(scan(cmd)).ok
        /\ tree = Some(parse(scan(cmd)).val)
        /\ translate(tree[1], verbose, ROk(ExePath)).ok
        /\ plan = Some(translate(tree[1], verbose, ROk(ExePath)).val)
    /\ (tokens # None /\ stage \in {"scan", "parse", "plan"}) =>
        /\ pc \in {"getcmd", "exit"}
        /\ ip = 0
        /\ \A c \in DOMAIN child : c[1] # nread
        /\ stage = "scan" => (err = None /\ tree = None /\ plan = None)
        /\ stage = "parse" =>
            /\ plan = None
            /\ tree # None <=> parse(tokens[1]).ok
            /\ err = None <=> tree # None
        /\ stage = "plan" =>
            /\ tree # None <=> parse(tokens[1]).ok
            /\ err = None <=> plan # None

(***************************************************************************)
(* C24: parse returns a tree only for tokens whose parentheses are         *)
(* balanced: when some `)` has no open `(` before it, or some `(`, at any  *)
(* depth, has no `)` after it, parse returns an error and no tree.         *)
(***************************************************************************)
\* the parentheses of toks are balanced, depth of them being open before
RECURSIVE Balanced(_, _)
Balanced(toks, depth) ==
    IF toks = <<>> THEN depth = 0
    ELSE IF Head(toks).kind = "OpenBrace" THEN Balanced(Tail(toks), depth + 1)
    ELSE IF Head(toks).kind = "CloseBrace"
    THEN depth > 0 /\ Balanced(Tail(toks), depth - 1)
    ELSE Balanced(Tail(toks), depth)

C24_BalancedParentheses ==
    (tokens # None /\ pc # "front_parse" /\ ~Balanced(tokens[1], 0))
    => (tree = None /\ err # None)

\* parsed and rejected: `((a)`, whose inner `(` is matched and whose outer
\* `(` is not
C24_Witness ==
    /\ cmd = <<"(", "(", "a", ")">>
    /\ pc = "front_done"
    /\ tree = None
    /\ err = Some("expected ')' token")

(***************************************************************************)
(* C25: a step of single_command in which the open of a redirection file   *)
(* fails returns an error (run ends and the error goes to shrunx, which    *)
(* prints it) and changes nothing else: no child is added, the             *)
(* reaper, the working directory, the open descriptors of the shell and    *)
(* the file system are as before; when it is the input that cannot be      *)
(* opened, no open of the output is attempted.                             *)
(***************************************************************************)
C25_FailedOpenHasNoEffect ==
    [][(/\ pc = "run" /\ ip' = ip + 1
        /\ Head(loc).type = "SingleCommand"
        /\ \E n \in DOMAIN log' :
            n > Len(log) /\ log'[n].op \in {"open_in_failed", "open_out_failed"})
       => /\ err' = Some("open")
          /\ pc' \in {AfterLine, "panic"}
          /\ child' = child
          /\ nchild' = nchild
          /\ procs' = procs
          /\ children' = children
          /\ cwd' = cwd
          /\ held' = held
          /\ files' = files
          /\ \A n \in DOMAIN log' :
                (n > Len(log) /\ log'[n].op = "open_in_failed")
                => /\ n = Len(log')
                   /\ \A m \in DOMAIN log' :
                        m > Len(log) =>
                            log'[m].op \notin {"open_out", "open_append",
                                               "open_out_failed"}
      ]_vars

\* `a<f>g` has ended with the error of the open of f: g, which did not
\* exist, has not been created and the line has no child
C25_Witness ==
    /\ cmd = <<"a", "<", "f", ">", "g">>
    /\ err = Some("open")
    /\ <<"g">> \notin DOMAIN files
    /\ \E n \in DOMAIN log : log[n].op = "open_in_failed" /\ log[n].arg = <<"f">>
    /\ \A c \in DOMAIN child : c[1] # nread

(***************************************************************************)
(* C26: when a simple command directly inside a subshell of the line has   *)
(* more than one input or more than one output redirection, translate does *)
(* not fail on that account (it returns a plan unless a command of the     *)
(* line itself breaks the rule of its position), and the shell that is     *)
(* given the serialized subshell as its line parses it and has its         *)
(* translation fail with `more than one input redirection` or `more than   *)
(* one output redirection`.                                                *)
(***************************************************************************)
C26_ErrorRaisedByChildShell ==
    Translated =>
        \A e \in DOMAIN tree[1].pipelines :
            \A i \in DOMAIN tree[1].pipelines[e].commands :
                (/\ TreeCmd(e, i).type = "Subshell"
                 /\ \E p \in Range(TreeCmd(e, i).complete_command.pipelines) :
                        \E j \in DOMAIN p.commands :
                            /\ p.commands[j].type = "SimpleCommand"
                            /\ \/ Len(p.commands[j].redirs.input) > 1
                               \/ Len(p.commands[j].redirs.output) > 1)
                => /\ (\A f \in DOMAIN tree[1].pipelines :
                          \A k \in DOMAIN tree[1].pipelines[f].commands :
                              ~BreaksRule(TreeCmd(f, k).redirs, k,
                                          Len(tree[1].pipelines[f].commands)))
                        => translate(tree[1], verbose, ROk(ExePath)).ok
                   /\ parse(scan(serialize(TreeCmd(e, i).complete_command).val)).ok
                   /\ ~translate(parse(scan(serialize(
                           TreeCmd(e, i).complete_command).val)).val,
                           verbose, ROk(ExePath)).ok
                   /\ translate(parse(scan(serialize(
                           TreeCmd(e, i).complete_command).val)).val,
                           verbose, ROk(ExePath)).err
                        \in {"more than one input redirection",
                             "more than one output redirection"}

(***************************************************************************)
(* C27: Interpreter::run stops at the first command that returns an error  *)
(* (a failed spawn, a failed open of a redirection, a cd error).  Once the *)
(* error is set: run is not going on with the plan (only the failing       *)
(* pipeline's kill-and-wait may still be in progress; after it the error   *)
(* is with shrunx, which prints it or panics), no command after            *)
(* the failing one has a child or an event, every child of an earlier      *)
(* command with sync has been waited on, and every child of an earlier     *)
(* command with sync = false is held by the manager, was not waited on by  *)
(* run and was not killed: only children of the failing command are.       *)
(***************************************************************************)
C27_RunStopsAtFirstError ==
    (err # None /\ plan # None /\ ip > 0) =>
        /\ pc \in {"wait", "getcmd", "exit", "panic"}
        /\ \A c \in DOMAIN child : c[1] = nread => child[c].entry <= ip
        /\ \A n \in DOMAIN log : log[n].entry <= ip
        /\ \A n \in DOMAIN log : log[n].op = "kill" => log[n].entry = ip
        /\ \A e \in 1..(ip - 1) : \A c \in ChildrenOf(e) :
               IF P(e).sync
               THEN child[c].status = "waited"
               ELSE /\ c \in Range(procs)
                    /\ Live(c)
                    /\ \A n \in DOMAIN log : log[n].op = "kill" => log[n].arg # c

\* `a;b&c;d`: c fails to spawn; a was waited on, b is held by the manager
\* and alive, d never started
C27_Witness ==
    /\ cmd = <<"a", ";", "b", "&", "c", ";", "d">>
    /\ err = Some("spawn")
    /\ ip = 3
    /\ pc \in {"getcmd", "exit"}
    /\ \E c \in ChildrenOf(1) : child[c].status = "waited"
    /\ \E c \in ChildrenOf(2) : c \in Range(procs) /\ Live(c)
    /\ ChildrenOf(3) = {} /\ ChildrenOf(4) = {}

(***************************************************************************)
(* C20: the target of an output redirection exists once it has been        *)
(* opened; after a child of the current line has written through a `>`     *)
(* redirection the content of the file is exactly what the child wrote;    *)
(* after it has written through a `>>` redirection the content of the file *)
(* ends with what the child wrote.                                         *)
(***************************************************************************)
\* the text t ends with the text u
EndsWith(t, u) ==
    /\ Len(t) >= Len(u)
    /\ SubSeq(t, Len(t) - Len(u) + 1, Len(t)) = u

C20_OutputFileContent ==
    \A c \in DOMAIN child :
        (c[1] = nread /\ child[c].stdout # None
            /\ child[c].stdout[1][1] \in {"out", "app"})
        => /\ child[c].stdout[1][2] \in DOMAIN files
           /\ (c \in wrote /\ child[c].stdout[1][1] = "out")
                => files[child[c].stdout[1][2]] = Output
           /\ (c \in wrote /\ child[c].stdout[1][1] = "app")
                => EndsWith(files[child[c].stdout[1][2]], Output)

=============================================================================
